---- MODULE Spec2Model ----
(***************************************************************************)
(* Continuation executor and receipt chain verification of the zkVM host.  *)
(*                                                                         *)
(* Several state machines share this module.  SpecV explores receipts      *)
(* handed to the receipt verifier (risc0/zkvm/src/host/receipt.rs): it     *)
(* starts from the receipts an honest prover assembles and lets an         *)
(* adversary alter fields of them before a verification entry point is     *)
(* called.  SpecE explores the segmenting executor                         *)
(* (risc0/zkvm/src/host/server/exec/executor.rs) running a guest program;  *)
(* SpecL and SpecS run two fixed guests on it and SpecT runs it with a     *)
(* trace observer.  SpecB applies the bigint ecall of the executor to      *)
(* operands drawn from a bounded set.  SpecI explores SliceIoSyscall       *)
(* (risc0/zkvm/src/prove/io.rs) and SpecA the guest's BumpPointerAlloc     *)
(* (risc0/zkvm/sdk/rust/guest/src/alloc.rs).  Each specification leaves    *)
(* the variables of the other machines untouched.                          *)
(***************************************************************************)
EXTENDS Integers, Sequences, FiniteSets, TLC

VARIABLES receipt, altered, verdict

varsV == <<receipt, altered, verdict>>

VARIABLES fault_proof, prog, exec, journal, status, api, runs, session, emitted,
          handler_log

varsE ==
    <<fault_proof, prog, exec, journal, status, api, runs, session, emitted,
      handler_log>>

\* The operands and the outcome of one bigint ecall.
VARIABLES bigint

varsB == <<bigint>>

\* The events the trace observer of a traced executor has received.
VARIABLES trace

varsT == <<trace>>

\* A SliceIoSyscall, its handler and the outcome of the last call.
VARIABLES slice_io

varsI == <<slice_io>>

\* A BumpPointerAlloc, the regions it returned and the memory of its zone.
VARIABLES heap

varsA == <<heap>>

vars == <<varsV, varsE, varsB, varsT, varsI, varsA>>

\* The executor while the receipt verifier is explored: never constructed.
IdleE ==
    /\ fault_proof = FALSE
    /\ prog = <<>>
    /\ exec = <<>>
    /\ journal = <<>>
    /\ status = "none"
    /\ api = "none"
    /\ runs = 0
    /\ session = <<>>
    /\ emitted = <<>>
    /\ handler_log = <<>>

\* No bigint ecall is explored.
IdleB == bigint = <<>>

\* No trace observer is installed.
IdleT == trace = <<>>

\* No SliceIoSyscall is explored.
IdleI == slice_io = <<>>

\* No allocator is explored.
IdleA == heap = <<>>

\* The receipt verifier while the executor is explored: no receipt at hand.
IdleV ==
    /\ receipt = <<>>
    /\ altered = <<>>
    /\ verdict = <<>>

(***************************************************************************)
(* Bounds of the receipt exploration.                                      *)
(***************************************************************************)
MaxSegments == 3
MaxTampers == 1

(***************************************************************************)
(* Digests.  A digest is a tuple whose first element is a tag; the hash    *)
(* functions are modelled as injective encodings of what they hash.        *)
(***************************************************************************)
ZERO == <<0>>

\* Journal::digest: the hash of the journal bytes.
HashBytes(bytes) == <<1>> \o bytes

\* Output::digest: a tagged struct over the journal and assumptions digests.
OutputDigest(journal_digest, assumptions_digest) ==
    <<2, journal_digest, assumptions_digest>>

\* Assumptions::digest: a tagged list over the assumptions' metadata digests.
AssumptionsDigest(metas) == <<3>> \o metas

\* Option<Digest>: None is the empty tuple, Some(d) is d itself.
None == <<>>

\* MaybePruned<Option<Output>>::is_none, on the digest that stands for it.
OutputIsNone(output) == output = ZERO

OutputIsSome(output) == ~OutputIsNone(output)

(***************************************************************************)
(* Exit codes.                                                             *)
(***************************************************************************)
SystemSplit == [kind |-> "SystemSplit", user |-> 0]
SessionLimit == [kind |-> "SessionLimit", user |-> 0]
Fault == [kind |-> "Fault", user |-> 0]
Halted(u) == [kind |-> "Halted", user |-> u]
Paused(u) == [kind |-> "Paused", user |-> u]

ExitCodes == {SystemSplit, SessionLimit, Fault, Halted(0), Halted(1), Paused(0)}

\* ExitCode::expects_output
ExpectsOutput(exit_code) == exit_code.kind \in {"Halted", "Paused"}

(***************************************************************************)
(* Receipts.                                                               *)
(*   segment receipt: seal (what the proof system says of it), hashfn     *)
(*     (whether the context knows the suite), and the metadata decoded     *)
(*     from the seal: pre and post image digests, exit_code, output.       *)
(*   assumption: an InnerReceipt of kind Groth16 or Fake.                  *)
(***************************************************************************)
Journals == {<<>>, <<1>>}

SealResults == {"Ok", "InvalidProof", "ControlVerificationError"}

BadImage == 0

NoAssumptions == AssumptionsDigest(<<>>)

\* InnerReceipt::get_metadata for Groth16 and Fake: the stored metadata.
InnerGetMetadata(a) == a.meta

\* CompositeReceipt::assumptions_metadata
AssumptionsMetadata(assumptions) ==
    AssumptionsDigest([i \in 1..Len(assumptions) |-> InnerGetMetadata(assumptions[i])])

\* Groth16Receipt::verify_integrity
Groth16VerifyIntegrity(a) == IF a.seal = "Ok" THEN "Ok" ELSE "InvalidProof"

\* InnerReceipt::verify_integrity_with_context that lets a Fake receipt pass.
InnerVerifyIntegrity_FakePasses(a, dev) ==
    IF a.kind = "Groth16" THEN Groth16VerifyIntegrity(a) ELSE "Ok"

\* InnerReceipt::verify_integrity_with_context for an assumption
InnerVerifyIntegrity(a, dev) ==
    IF a.kind = "Groth16" THEN Groth16VerifyIntegrity(a)
    ELSE IF dev THEN "Ok" ELSE "InvalidProof"

\* SegmentReceipt::verify_integrity_with_context
SegmentVerifyIntegrity(s) ==
    IF ~s.hashfn THEN "InvalidHashSuite" ELSE s.seal

\* ChainLoop without the comparison of pre with the previous post digest.
RECURSIVE ChainLoop_NoChainCheck(_, _, _)
ChainLoop_NoChainCheck(receipts, i, prev) ==
    IF i > Len(receipts) THEN [res |-> "Ok", prev |-> prev]
    ELSE LET s == receipts[i] IN
        IF SegmentVerifyIntegrity(s) # "Ok"
            THEN [res |-> SegmentVerifyIntegrity(s), prev |-> prev]
        ELSE IF s.exit_code # SystemSplit
            THEN [res |-> "UnexpectedExitCode", prev |-> prev]
        ELSE IF ~OutputIsNone(s.output)
            THEN [res |-> "ReceiptFormatError", prev |-> prev]
        ELSE ChainLoop_NoChainCheck(receipts, i + 1, <<s.post>>)

\* ChainLoop without the exit code check of the non-final receipts.
RECURSIVE ChainLoop_NoExitCheck(_, _, _)
ChainLoop_NoExitCheck(receipts, i, prev) ==
    IF i > Len(receipts) THEN [res |-> "Ok", prev |-> prev]
    ELSE LET s == receipts[i] IN
        IF SegmentVerifyIntegrity(s) # "Ok"
            THEN [res |-> SegmentVerifyIntegrity(s), prev |-> prev]
        ELSE IF prev # None /\ prev # <<s.pre>>
            THEN [res |-> "ImageVerificationError", prev |-> prev]
        ELSE IF ~OutputIsNone(s.output)
            THEN [res |-> "ReceiptFormatError", prev |-> prev]
        ELSE ChainLoop_NoExitCheck(receipts, i + 1, <<s.post>>)

\* ChainLoop that goes on past a segment receipt that fails verification.
RECURSIVE ChainLoop_IgnoresSeal(_, _, _)
ChainLoop_IgnoresSeal(receipts, i, prev) ==
    IF i > Len(receipts) THEN [res |-> "Ok", prev |-> prev]
    ELSE LET s == receipts[i] IN
        IF prev # None /\ prev # <<s.pre>>
            THEN [res |-> "ImageVerificationError", prev |-> prev]
        ELSE IF s.exit_code # SystemSplit
            THEN [res |-> "UnexpectedExitCode", prev |-> prev]
        ELSE IF ~OutputIsNone(s.output)
            THEN [res |-> "ReceiptFormatError", prev |-> prev]
        ELSE ChainLoop_IgnoresSeal(receipts, i + 1, <<s.post>>)

\* ChainLoop that tests the exit code of a segment receipt before its
\* chaining.
RECURSIVE ChainLoop_ExitCodeFirst(_, _, _)
ChainLoop_ExitCodeFirst(receipts, i, prev) ==
    IF i > Len(receipts) THEN [res |-> "Ok", prev |-> prev]
    ELSE LET s == receipts[i] IN
        IF SegmentVerifyIntegrity(s) # "Ok"
            THEN [res |-> SegmentVerifyIntegrity(s), prev |-> prev]
        ELSE IF s.exit_code # SystemSplit
            THEN [res |-> "UnexpectedExitCode", prev |-> prev]
        ELSE IF prev # None /\ prev # <<s.pre>>
            THEN [res |-> "ImageVerificationError", prev |-> prev]
        ELSE IF ~OutputIsNone(s.output)
            THEN [res |-> "ReceiptFormatError", prev |-> prev]
        ELSE ChainLoop_ExitCodeFirst(receipts, i + 1, <<s.post>>)

\* The loop over the non-final segment receipts: each is verified, then
\* chained to its predecessor.  prev is an Option<Digest>.  The result is the
\* first error, or "Ok" with the post digest of the last receipt seen.
RECURSIVE ChainLoop(_, _, _)
ChainLoop(receipts, i, prev) ==
    IF i > Len(receipts) THEN [res |-> "Ok", prev |-> prev]
    ELSE LET s == receipts[i] IN
        IF SegmentVerifyIntegrity(s) # "Ok"
            THEN [res |-> SegmentVerifyIntegrity(s), prev |-> prev]
        ELSE IF prev # None /\ prev # <<s.pre>>
            THEN [res |-> "ImageVerificationError", prev |-> prev]
        ELSE IF s.exit_code # SystemSplit
            THEN [res |-> "UnexpectedExitCode", prev |-> prev]
        ELSE IF ~OutputIsNone(s.output)
            THEN [res |-> "ReceiptFormatError", prev |-> prev]
        ELSE ChainLoop(receipts, i + 1, <<s.post>>)

\* AssumptionsLoop that verifies no assumption.
AssumptionsLoop_Skip(assumptions, i, dev) == "Ok"

\* The loop over the assumptions: the first error, or "Ok".
RECURSIVE AssumptionsLoop(_, _, _)
AssumptionsLoop(assumptions, i, dev) ==
    IF i > Len(assumptions) THEN "Ok"
    ELSE IF InnerVerifyIntegrity(assumptions[i], dev) # "Ok"
        THEN InnerVerifyIntegrity(assumptions[i], dev)
    ELSE AssumptionsLoop(assumptions, i + 1, dev)

\* VerifyOutputConsistency without the comparison of the two output digests.
VerifyOutputConsistency_NoDigestCheck(r, exit_code, output) ==
    IF ExpectsOutput(exit_code) /\ OutputIsSome(output) THEN
        IF r.journal_digest = None THEN "ReceiptFormatError"
        ELSE "Ok"
    ELSE IF OutputIsSome(output) THEN "ReceiptFormatError"
    ELSE IF Len(r.assumptions) # 0 THEN "ReceiptFormatError"
    ELSE IF r.journal_digest # None THEN "ReceiptFormatError"
    ELSE "Ok"

\* VerifyOutputConsistency that leaves the assumptions out of the output.
VerifyOutputConsistency_IgnoreAssumptions(r, exit_code, output) ==
    IF ExpectsOutput(exit_code) /\ OutputIsSome(output) THEN
        IF r.journal_digest = None THEN "ReceiptFormatError"
        ELSE IF OutputDigest(r.journal_digest, NoAssumptions) # output
            THEN "ReceiptFormatError"
        ELSE "Ok"
    ELSE IF OutputIsSome(output) THEN "ReceiptFormatError"
    ELSE IF r.journal_digest # None THEN "ReceiptFormatError"
    ELSE "Ok"

\* CompositeReceipt::verify_output_consistency
VerifyOutputConsistency(r, exit_code, output) ==
    IF ExpectsOutput(exit_code) /\ OutputIsSome(output) THEN
        IF r.journal_digest = None THEN "ReceiptFormatError"
        ELSE IF OutputDigest(r.journal_digest, AssumptionsMetadata(r.assumptions)) # output
            THEN IF OutputIsNone(output) /\ r.journal_digest = HashBytes(<<>>)
                    THEN "Ok"
                    ELSE "ReceiptFormatError"
        ELSE "Ok"
    ELSE IF OutputIsSome(output) THEN "ReceiptFormatError"
    ELSE IF Len(r.assumptions) # 0 THEN "ReceiptFormatError"
    ELSE IF r.journal_digest # None THEN "ReceiptFormatError"
    ELSE "Ok"

\* CompositeVerifyIntegrity without the chaining check of the final segment.
CompositeVerifyIntegrity_NoFinalChain(r, dev) ==
    IF Len(r.segments) = 0 THEN "ReceiptFormatError"
    ELSE LET n == Len(r.segments)
             final_receipt == r.segments[n]
             chain == ChainLoop(SubSeq(r.segments, 1, n - 1), 1, None)
         IN
        IF chain.res # "Ok" THEN chain.res
        ELSE IF SegmentVerifyIntegrity(final_receipt) # "Ok"
            THEN SegmentVerifyIntegrity(final_receipt)
        ELSE IF AssumptionsLoop(r.assumptions, 1, dev) # "Ok"
            THEN AssumptionsLoop(r.assumptions, 1, dev)
        ELSE VerifyOutputConsistency(r, final_receipt.exit_code, final_receipt.output)

\* CompositeReceipt::verify_integrity_with_context
CompositeVerifyIntegrity(r, dev) ==
    IF Len(r.segments) = 0 THEN "ReceiptFormatError"
    ELSE LET n == Len(r.segments)
             final_receipt == r.segments[n]
             chain == ChainLoop(SubSeq(r.segments, 1, n - 1), 1, None)
         IN
        IF chain.res # "Ok" THEN chain.res
        ELSE IF SegmentVerifyIntegrity(final_receipt) # "Ok"
            THEN SegmentVerifyIntegrity(final_receipt)
        ELSE IF chain.prev # None /\ chain.prev # <<final_receipt.pre>>
            THEN "ImageVerificationError"
        ELSE IF AssumptionsLoop(r.assumptions, 1, dev) # "Ok"
            THEN AssumptionsLoop(r.assumptions, 1, dev)
        ELSE VerifyOutputConsistency(r, final_receipt.exit_code, final_receipt.output)

\* CompositeReceipt::get_metadata: res is "Ok" or the error; on "Ok" the other
\* fields are the metadata of the whole continuation.
CompositeGetMetadata(r) ==
    LET err(e) == [res |-> e, pre |-> BadImage, post |-> BadImage,
                   exit_code |-> SystemSplit, output |-> ZERO]
    IN
    IF Len(r.segments) = 0 THEN err("ReceiptFormatError")
    ELSE LET first_metadata == r.segments[1]
             last_metadata == r.segments[Len(r.segments)]
             consistent == VerifyOutputConsistency(r, last_metadata.exit_code,
                                                   last_metadata.output)
         IN
        IF consistent # "Ok" THEN err(consistent)
        ELSE IF OutputIsSome(last_metadata.output) /\ r.journal_digest = None
            THEN err("ReceiptFormatError")
        ELSE [res |-> "Ok",
              pre |-> first_metadata.pre,
              post |-> last_metadata.post,
              exit_code |-> last_metadata.exit_code,
              output |-> IF OutputIsSome(last_metadata.output)
                            THEN OutputDigest(r.journal_digest, NoAssumptions)
                            ELSE ZERO]

\* Receipt::verify_integrity_with_context (the inner receipt is a composite)
ReceiptVerifyIntegrity(r, dev) ==
    IF CompositeVerifyIntegrity(r, dev) # "Ok" THEN CompositeVerifyIntegrity(r, dev)
    ELSE LET metadata == CompositeGetMetadata(r)
             expected_output ==
                 IF ExpectsOutput(metadata.exit_code)
                    THEN OutputDigest(HashBytes(r.journal), NoAssumptions)
                    ELSE ZERO
         IN
        IF metadata.res # "Ok" THEN metadata.res
        ELSE IF metadata.output # expected_output
                /\ ~(OutputIsNone(metadata.output) /\ r.journal = <<>>)
            THEN "JournalDigestMismatch"
        ELSE "Ok"

\* ReceiptVerify without the exit code check.
ReceiptVerify_NoExitCheck(r, dev, image_id) ==
    IF CompositeVerifyIntegrity(r, dev) # "Ok" THEN CompositeVerifyIntegrity(r, dev)
    ELSE LET metadata == CompositeGetMetadata(r)
             expected_output == OutputDigest(HashBytes(r.journal), NoAssumptions)
         IN
        IF metadata.res # "Ok" THEN metadata.res
        ELSE IF metadata.pre # image_id THEN "ImageVerificationError"
        ELSE IF metadata.output # expected_output
                /\ ~(OutputIsNone(metadata.output) /\ r.journal = <<>>)
            THEN "JournalDigestMismatch"
        ELSE "Ok"

\* ReceiptVerify without the image id check.
ReceiptVerify_NoImageCheck(r, dev, image_id) ==
    IF CompositeVerifyIntegrity(r, dev) # "Ok" THEN CompositeVerifyIntegrity(r, dev)
    ELSE LET metadata == CompositeGetMetadata(r)
             expected_output == OutputDigest(HashBytes(r.journal), NoAssumptions)
         IN
        IF metadata.res # "Ok" THEN metadata.res
        ELSE IF metadata.exit_code \notin {Halted(0), Paused(0)}
            THEN "UnexpectedExitCode"
        ELSE IF metadata.output # expected_output
                /\ ~(OutputIsNone(metadata.output) /\ r.journal = <<>>)
            THEN "JournalDigestMismatch"
        ELSE "Ok"

\* Receipt::verify_with_context
ReceiptVerify(r, dev, image_id) ==
    IF CompositeVerifyIntegrity(r, dev) # "Ok" THEN CompositeVerifyIntegrity(r, dev)
    ELSE LET metadata == CompositeGetMetadata(r)
             expected_output == OutputDigest(HashBytes(r.journal), NoAssumptions)
         IN
        IF metadata.res # "Ok" THEN metadata.res
        ELSE IF metadata.pre # image_id THEN "ImageVerificationError"
        ELSE IF metadata.exit_code \notin {Halted(0), Paused(0)}
            THEN "UnexpectedExitCode"
        ELSE IF metadata.output # expected_output
                /\ ~(OutputIsNone(metadata.output) /\ r.journal = <<>>)
            THEN "JournalDigestMismatch"
        ELSE "Ok"

(***************************************************************************)
(* The receipts under verification.                                        *)
(***************************************************************************)
ProvenAssumption == [kind |-> "Groth16", seal |-> "Ok", meta |-> <<4, 1>>]
BrokenAssumption == [kind |-> "Groth16", seal |-> "InvalidProof", meta |-> <<4, 1>>]
FakeAssumption == [kind |-> "Fake", seal |-> "InvalidProof", meta |-> <<4, 1>>]

AssumptionLists ==
    {<<>>, <<ProvenAssumption>>, <<BrokenAssumption>>, <<FakeAssumption>>}

FirstImage == 1

\* The segment receipts of an honest continuation of n segments that ends
\* with exit_code and output: segment i runs from image i to image i + 1.
HonestSegments(n, exit_code, output) ==
    [i \in 1..n |->
        [seal |-> "Ok", hashfn |-> TRUE, pre |-> FirstImage + i - 1,
         post |-> FirstImage + i,
         exit_code |-> IF i = n THEN exit_code ELSE SystemSplit,
         output |-> IF i = n THEN output ELSE ZERO]]

\* What an honest prover assembles from a session: the final segment of a
\* halted or paused guest commits to the journal and the assumptions (or to
\* nothing, when the journal is empty); a faulted guest has no output.
HonestReceipts ==
    {[segments |-> HonestSegments(n, e,
            OutputDigest(HashBytes(<<1>>), AssumptionsMetadata(as))),
      assumptions |-> as, journal_digest |-> HashBytes(<<1>>), journal |-> <<1>>] :
        n \in 1..MaxSegments, e \in {Halted(0), Halted(1), Paused(0)},
        as \in {<<>>, <<ProvenAssumption>>}}
    \cup
    {[segments |-> HonestSegments(n, e, ZERO),
      assumptions |-> <<>>, journal_digest |-> None, journal |-> <<>>] :
        n \in 1..MaxSegments, e \in {Halted(0), Halted(1), Paused(0), Fault}}

OutputChoices ==
    {ZERO} \cup {OutputDigest(HashBytes(j), AssumptionsMetadata(as)) :
                    j \in Journals, as \in {<<>>, <<ProvenAssumption>>}}

JournalDigestChoices == {None} \cup {HashBytes(j) : j \in Journals}

NoVerdict == [op |-> "none", image_id |-> BadImage, dev |-> FALSE, res |-> "none"]

HasFake(r) == \E i \in 1..Len(r.assumptions) : r.assumptions[i].kind = "Fake"

\* is_dev_mode(): the process environment decides it when a Fake receipt is
\* checked.
DevModes(r) == IF HasFake(r) THEN BOOLEAN ELSE {FALSE}

\* The alterations are made in a fixed order of the fields, so that each set
\* of alterations is explored once.
Rank(field, i) ==
    CASE field = "seal" -> 10 * i + 1
      [] field = "hashfn" -> 10 * i + 2
      [] field = "pre" -> 10 * i + 3
      [] field = "post" -> 10 * i + 4
      [] field = "exit_code" -> 10 * i + 5
      [] field = "output" -> 10 * i + 6
      [] field = "journal" -> 10 * (MaxSegments + 1) + 1
      [] field = "journal_digest" -> 10 * (MaxSegments + 1) + 2
      [] field = "assumptions" -> 10 * (MaxSegments + 1) + 3
      [] field = "segments" -> 10 * (MaxSegments + 1) + 4

MayAlter(field, i) ==
    /\ Len(altered) < MaxTampers
    /\ \A k \in 1..Len(altered) : Rank(altered[k][1], altered[k][2]) < Rank(field, i)

\* An adversary replaces one field of segment receipt i by another value.
AlterSegment(field, i, value) ==
    /\ i \in 1..Len(receipt.segments)
    /\ MayAlter(field, i)
    /\ receipt.segments[i][field] # value
    /\ receipt' = [receipt EXCEPT !.segments[i][field] = value]
    /\ altered' = Append(altered, <<field, i>>)
    /\ verdict' = NoVerdict
    /\ UNCHANGED <<varsE, varsB, varsT, varsI, varsA>>

\* An adversary replaces one field of the composite receipt or the journal.
AlterReceipt(field, value) ==
    /\ MayAlter(field, 0)
    /\ receipt[field] # value
    /\ receipt' = [receipt EXCEPT ![field] = value]
    /\ altered' = Append(altered, <<field, 0>>)
    /\ verdict' = NoVerdict
    /\ UNCHANGED <<varsE, varsB, varsT, varsI, varsA>>

TamperSeal == \E i \in 1..MaxSegments, v \in SealResults : AlterSegment("seal", i, v)
TamperHashfn == \E i \in 1..MaxSegments : AlterSegment("hashfn", i, FALSE)
TamperPre == \E i \in 1..MaxSegments : AlterSegment("pre", i, BadImage)
TamperPost == \E i \in 1..MaxSegments : AlterSegment("post", i, BadImage)
TamperExitCode == \E i \in 1..MaxSegments, e \in ExitCodes : AlterSegment("exit_code", i, e)
TamperOutput == \E i \in 1..MaxSegments, o \in OutputChoices : AlterSegment("output", i, o)
TamperJournal == \E j \in Journals : AlterReceipt("journal", j)
TamperJournalDigest == \E d \in JournalDigestChoices : AlterReceipt("journal_digest", d)
TamperAssumptions == \E as \in AssumptionLists : AlterReceipt("assumptions", as)
\* A receipt that carries no segment receipt at all.
TamperSegments == AlterReceipt("segments", <<>>)

\* A call of CompositeReceipt::verify_integrity_with_context.
CallCompositeVerifyIntegrity ==
    /\ \E dev \in DevModes(receipt) :
        verdict' = [op |-> "composite_verify_integrity", image_id |-> BadImage,
                    dev |-> dev, res |-> CompositeVerifyIntegrity(receipt, dev)]
    /\ UNCHANGED <<receipt, altered>>
    /\ UNCHANGED <<varsE, varsB, varsT, varsI, varsA>>

\* A call of Receipt::verify_integrity_with_context.
CallVerifyIntegrity ==
    /\ \E dev \in DevModes(receipt) :
        verdict' = [op |-> "verify_integrity", image_id |-> BadImage,
                    dev |-> dev, res |-> ReceiptVerifyIntegrity(receipt, dev)]
    /\ UNCHANGED <<receipt, altered>>
    /\ UNCHANGED <<varsE, varsB, varsT, varsI, varsA>>

\* A call of Receipt::verify_with_context for an image id.
CallVerify ==
    /\ \E dev \in DevModes(receipt), image_id \in {FirstImage, BadImage} :
        verdict' = [op |-> "verify", image_id |-> image_id,
                    dev |-> dev, res |-> ReceiptVerify(receipt, dev, image_id)]
    /\ UNCHANGED <<receipt, altered>>
    /\ UNCHANGED <<varsE, varsB, varsT, varsI, varsA>>

InitV ==
    /\ receipt \in HonestReceipts
    /\ altered = <<>>
    /\ verdict = NoVerdict
    /\ IdleE
    /\ IdleB
    /\ IdleT
    /\ IdleI
    /\ IdleA

NextV ==
    \/ TamperSeal
    \/ TamperHashfn
    \/ TamperPre
    \/ TamperPost
    \/ TamperExitCode
    \/ TamperOutput
    \/ TamperJournal
    \/ TamperJournalDigest
    \/ TamperAssumptions
    \/ TamperSegments
    \/ CallCompositeVerifyIntegrity
    \/ CallVerifyIntegrity
    \/ CallVerify

SpecV == InitV /\ [][NextV]_vars

(***************************************************************************)
(* The segmenting executor (ExecutorImpl).                                 *)
(*                                                                         *)
(* exec is the ExecutorImpl object, a record with the fields of the        *)
(* struct.  The guest's code is fixed before the run; prog holds the       *)
(* instructions fetched so far, and an instruction is drawn from InsnSet   *)
(* the first time the program counter reaches it.  One Step is one         *)
(* iteration of the run loop: a call of step() and, when it yields an exit *)
(* code, the construction of the segment and the return of the session.    *)
(***************************************************************************)

\* Bounds of the executor exploration.
MaxProgLen == 4
MaxRuns == 2
MaxCheckerSegments == 2
ShaBlocks == 40
SyscallWords == 401
BigShaBlocks == 113
SmallSessionLimit == 9000

\* Option<T>: None is the empty tuple, Some(x) the tuple of x.
Some(x) == <<x>>

SHA_CYCLES == 73
DEFAULT_SEGMENT_LIMIT_PO2 == 20

\* risc0_zkp constants and the Loader's cycle counts.
MIN_CYCLES_PO2 == 13
MAX_CYCLES_PO2 == 24
ZK_CYCLES == 50
init_cycles == 1561
fini_cycles == 3
const_cycles == init_cycles + fini_cycles + SHA_CYCLES + ZK_CYCLES

\* Cycles charged for paging one page in or out.
PAGE_CYCLES == 1094

\* usize::next_power_of_two and log2_ceil.
RECURSIVE PowerOfTwoFrom(_, _)
PowerOfTwoFrom(n, p) == IF p >= n THEN p ELSE PowerOfTwoFrom(n, 2 * p)

NextPowerOfTwo(n) == PowerOfTwoFrom(n, 1)

RECURSIVE Log2Ceil(_)
Log2Ceil(n) == IF n <= 1 THEN 0 ELSE 1 + Log2Ceil((n + 1) \div 2)

\* halt::TERMINATE and halt::PAUSE, the halt types of the halt ecall.
halt_TERMINATE == 0
halt_PAUSE == 1

\* Register a0 of a halt ecall: the halt type in bits 0..7, the user exit
\* code in bits 8..15.
HaltWord(halt_type, user_exit) == halt_type + 256 * user_exit

\* Guest instructions: plain computation, a store to the data page, a SHA
\* ecall over ShaBlocks blocks, the halt ecall with the word it finds in a0
\* (TERMINATE or PAUSE with a user exit code, or a halt type that is neither),
\* an instruction that traps in the instruction executor, a word that does
\* not decode, and a software ecall that asks the host for SyscallWords
\* words.  The SHA ecall over BigShaBlocks blocks costs more than the
\* smallest segment limit.
Insn(op, arg) == [op |-> op, arg |-> arg]

InsnSet ==
    {Insn("plain", 0), Insn("store", 0), Insn("sha", ShaBlocks),
     Insn("halt", HaltWord(halt_TERMINATE, 0)),
     Insn("halt", HaltWord(halt_TERMINATE, 1)),
     Insn("halt", HaltWord(halt_PAUSE, 0)),
     Insn("halt", HaltWord(2, 0)),
     Insn("trap", 0), Insn("illegal", 0), Insn("syscall", SyscallWords),
     Insn("sha", BigShaBlocks)}

\* What load_u32 yields beyond the mapped program.
NoInsn == Insn("unmapped", 0)

\* OpCode::cycles, the base cost of an instruction.
OpCycles(insn) == 1

Pages == {"code", "data"}

\* Pages an instruction reads (its own fetch included) and writes.
LoadedPages(insn) ==
    IF insn.op \in {"sha", "halt", "syscall"}
    THEN {"code", "data"} ELSE {"code"}

StoredPages(insn) ==
    IF insn.op \in {"store", "sha", "syscall"} THEN {"data"} ELSE {}

\* A MemoryImage: the program counter and the contents of memory, which the
\* model tells apart by the number of committed writes.
Image(elf, p, mem) == [elf |-> elf, pc |-> p, mem |-> mem]

\* MemoryImage::compute_id.
ImageId(image) == <<5, image.elf, image.pc, image.mem>>

GuestImage == Image("guest", 1, 0)

\* MemoryMonitor::new.
MonitorNew(image) ==
    [elf |-> image.elf, mem |-> image.mem,
     page_states |-> [p \in Pages |-> "Unloaded"],
     page_read_cycles |-> 0, page_write_cycles |-> 0]

\* The loads and stores of one instruction, pending until commit: the first
\* touch of a page in a segment charges the page-read cost, the first store
\* to it the page-write cost.
MonitorAccess(m, insn) ==
    LET reads == {p \in LoadedPages(insn) \cup StoredPages(insn) :
                      m.page_states[p] = "Unloaded"}
        writes == {p \in StoredPages(insn) : m.page_states[p] # "Dirty"}
    IN [m EXCEPT
           !.page_states = [p \in Pages |->
               IF p \in writes THEN "Dirty"
               ELSE IF p \in reads THEN "Loaded" ELSE m.page_states[p]],
           !.page_read_cycles = @ + PAGE_CYCLES * Cardinality(reads),
           !.page_write_cycles = @ + PAGE_CYCLES * Cardinality(writes),
           !.mem = IF StoredPages(insn) = {} THEN @ ELSE @ + 1]

\* MemoryMonitor::clear_segment and clear_session.
ClearSegment(m) ==
    [m EXCEPT !.page_states = [p \in Pages |-> "Unloaded"],
              !.page_read_cycles = 0, !.page_write_cycles = 0]

ClearSession(m) == ClearSegment(m)

\* MemoryMonitor::build_image.
BuildImage(m, p) == Image(m.elf, p, m.mem)

NoExecutor == <<>>

NoSession == <<>>

\* ExecutorEnv: segment_limit_po2 and session_limit are options.
EnvChoices ==
    [segment_limit_po2 :
         {None, Some(MIN_CYCLES_PO2 - 1), Some(MIN_CYCLES_PO2),
          Some(MAX_CYCLES_PO2 + 1)},
     session_limit : {None, Some(SmallSessionLimit)}]

\* ExecutorImpl::with_obj_ctx without the upper bound of segment_limit_po2.
WithObjCtx_NoUpperBound(env, image) ==
    LET segment_limit_po2 ==
            IF env.segment_limit_po2 = None THEN DEFAULT_SEGMENT_LIMIT_PO2
            ELSE env.segment_limit_po2[1]
    IN IF segment_limit_po2 < MIN_CYCLES_PO2
       THEN [res |-> "Err", exec |-> NoExecutor]
       ELSE [res |-> "Ok",
             exec |-> [env |-> env,
                       pre_image |-> image,
                       monitor |-> MonitorNew(image),
                       pc |-> image.pc,
                       body_cycles |-> 0,
                       segment_limit |-> 2 ^ segment_limit_po2,
                       segment_cycle |-> init_cycles,
                       segments |-> <<>>,
                       insn_counter |-> 0,
                       split_insn |-> None,
                       pending_syscall |-> None,
                       syscalls |-> <<>>,
                       exit_code |-> None]]

\* ExecutorImpl::with_obj_ctx.
WithObjCtx(env, image) ==
    LET segment_limit_po2 ==
            IF env.segment_limit_po2 = None THEN DEFAULT_SEGMENT_LIMIT_PO2
            ELSE env.segment_limit_po2[1]
    IN IF segment_limit_po2 < MIN_CYCLES_PO2 \/ segment_limit_po2 > MAX_CYCLES_PO2
       THEN [res |-> "Err", exec |-> NoExecutor]
       ELSE [res |-> "Ok",
             exec |-> [env |-> env,
                       pre_image |-> image,
                       monitor |-> MonitorNew(image),
                       pc |-> image.pc,
                       body_cycles |-> 0,
                       segment_limit |-> 2 ^ segment_limit_po2,
                       segment_cycle |-> init_cycles,
                       segments |-> <<>>,
                       insn_counter |-> 0,
                       split_insn |-> None,
                       pending_syscall |-> None,
                       syscalls |-> <<>>,
                       exit_code |-> None]]

\* ExecutorImpl::total_cycles.
total_cycles(e) ==
    const_cycles + e.monitor.page_read_cycles + e.monitor.page_write_cycles
        + e.body_cycles

\* ExecutorImpl::session_cycle.
session_cycle(e) == Len(e.segments) * e.segment_limit + e.segment_cycle

\* OpCodeResult::new.  err tells Ok(OpCodeResult) from Err.
OpCodeResult(p, exit_code, extra_cycles) ==
    [pc |-> p, exit_code |-> exit_code, extra_cycles |-> extra_cycles,
     err |-> FALSE]

\* An ecall that bails.
Bail == [pc |-> 0, exit_code |-> None, extra_cycles |-> 0, err |-> TRUE]

\* ExecutorImpl::ecall_halt that advances pc behind a TERMINATE as well.
EcallHalt_TerminateAdvances(e, insn) ==
    LET tot_reg == insn.arg
        halt_type == tot_reg % 256
        user_exit == (tot_reg \div 256) % 256
    IN IF halt_type = halt_TERMINATE
       THEN OpCodeResult(e.pc + 1, Some(Halted(user_exit)), 0)
       ELSE IF halt_type = halt_PAUSE
       THEN OpCodeResult(e.pc + 1, Some(Paused(user_exit)), 0)
       ELSE Bail

\* ExecutorImpl::ecall_halt.
EcallHalt(e, insn) ==
    LET tot_reg == insn.arg
        halt_type == tot_reg % 256
        user_exit == (tot_reg \div 256) % 256
    IN IF halt_type = halt_TERMINATE
       THEN OpCodeResult(e.pc, Some(Halted(user_exit)), 0)
       ELSE IF halt_type = halt_PAUSE
       THEN OpCodeResult(e.pc + 1, Some(Paused(user_exit)), 0)
       ELSE Bail

\* ExecutorImpl::ecall_sha.
EcallSha(e, insn) == OpCodeResult(e.pc + 1, None, SHA_CYCLES * insn.arg)

WORD_SIZE == 4

\* align_up: n rounded up to a multiple of align.
AlignUp(n, align) == ((n + align - 1) \div align) * align

\* What a host handler returns: the word it writes to the guest's buffer and
\* the result registers (a0, a1).
HandlerResults == {1, 2}

SyscallRecord(to_guest, regs) == [to_guest |-> to_guest, regs |-> regs]

\* The SyscallRecord ecall_software applies: the pending one when there is
\* one, else the record of what the handler, invoked now, returns (host).
SyscallToApply_NoReplay(e, host) == SyscallRecord(host, <<host, 0>>)

SyscallToApply(e, host) ==
    IF e.pending_syscall # None THEN e.pending_syscall[1]
    ELSE SyscallRecord(host, <<host, 0>>)

\* ExecutorImpl::ecall_software: one cycle for the ecall, one for each chunk
\* and one to save the result registers.
EcallSoftware(e, insn) ==
    OpCodeResult(e.pc + 1, None, 1 + AlignUp(insn.arg, WORD_SIZE) + 1)

\* store_region_to_guest_memory and store_register of the record applied.
StoreRecord(m, record) == [m EXCEPT !.mem = @ + 10 * record.to_guest]

\* The result of an instruction that did not trap: an ecall's, or that of
\* InstructionExecutor::step.
OpResult(e, insn) ==
    CASE insn.op = "halt" -> EcallHalt(e, insn)
      [] insn.op = "sha" -> EcallSha(e, insn)
      [] insn.op = "syscall" -> EcallSoftware(e, insn)
      [] OTHER -> OpCodeResult(e.pc + 1, None, 0)

\* ExecutorImpl::advance that drops the pending record of a software ecall.
Advance_DropsRecord(e, m, insn, op_result) ==
    LET body == e.body_cycles + OpCycles(insn) + op_result.extra_cycles
    IN [e EXCEPT
           !.pc = op_result.pc,
           !.insn_counter = @ + 1,
           !.body_cycles = body,
           !.segment_cycle = init_cycles + m.page_read_cycles + body,
           !.monitor = m,
           !.pending_syscall = None]

\* ExecutorImpl::advance, on the monitor m that holds the instruction's
\* accesses; commit makes them permanent.
Advance(e, m, insn, op_result) ==
    LET body == e.body_cycles + OpCycles(insn) + op_result.extra_cycles
    IN [e EXCEPT
           !.pc = op_result.pc,
           !.insn_counter = @ + 1,
           !.body_cycles = body,
           !.segment_cycle = init_cycles + m.page_read_cycles + body,
           !.monitor = m,
           !.pending_syscall = None,
           !.syscalls = IF e.pending_syscall = None THEN @
                        ELSE Append(@, e.pending_syscall[1])]

\* The test of step() that the pending instruction does not fit the segment.
ExceedsSegment_Never(total_pending_cycles, segment_limit) == FALSE

ExceedsSegment_AtHalf(total_pending_cycles, segment_limit) ==
    total_pending_cycles > segment_limit \div 2

ExceedsSegment(total_pending_cycles, segment_limit) ==
    total_pending_cycles > segment_limit

SessionLimitReached_Never(e) == FALSE

\* The session limit test at the head of step().
SessionLimitReached(e) ==
    e.env.session_limit # None /\ session_cycle(e) >= e.env.session_limit[1]

\* step() reaches ecall_software and the handler is invoked: the instruction
\* is a software ecall and there is no pending record.
InvokesHandler(e, insn) ==
    /\ ~SessionLimitReached(e)
    /\ insn.op = "syscall"
    /\ e.pending_syscall = None

\* ExecutorImpl::step on the instruction insn found at pc.  The result holds
\* the executor after the call and what the call returned: res is "Err" when
\* it returned an error, and exit_code is the Option<ExitCode> otherwise.
\* undo() drops the pending accesses, which leaves the monitor as it was.
step_SplitKeepsAccesses(e, insn, fp, host) ==
    LET pre_cycles == total_cycles(e)
        called == IF insn.op = "syscall"
                  THEN [e EXCEPT !.pending_syscall = Some(SyscallToApply(e, host))]
                  ELSE e
        m == IF insn.op = "syscall"
             THEN StoreRecord(MonitorAccess(e.monitor, insn), called.pending_syscall[1])
             ELSE MonitorAccess(e.monitor, insn)
        op_result == OpResult(e, insn)
        total_pending_cycles ==
            total_cycles([e EXCEPT !.monitor = m]) + OpCycles(insn)
                + op_result.extra_cycles
    IN IF SessionLimitReached(e)
       THEN [res |-> "Ok", exit_code |-> Some(SessionLimit), exec |-> e]
       ELSE IF insn = NoInsn \/ insn.op = "illegal" \/ op_result.err
       THEN [res |-> "Err", exit_code |-> None, exec |-> e]
       ELSE IF insn.op = "trap"
       THEN [res |-> IF fp THEN "Ok" ELSE "Err",
             exit_code |-> IF fp THEN Some(Fault) ELSE None,
             exec |-> [e EXCEPT !.split_insn = Some(e.insn_counter)]]
       ELSE IF total_pending_cycles - pre_cycles > e.segment_limit
       THEN [res |-> "Err", exit_code |-> None, exec |-> called]
       ELSE IF ExceedsSegment(total_pending_cycles, e.segment_limit)
       THEN [res |-> "Ok", exit_code |-> Some(SystemSplit),
             exec |-> [called EXCEPT !.split_insn = Some(e.insn_counter),
                                     !.monitor = m]]
       ELSE [res |-> "Ok", exit_code |-> op_result.exit_code,
             exec |-> Advance(called, m, insn, op_result)]

step_NoSingleInsnCheck(e, insn, fp, host) ==
    LET pre_cycles == total_cycles(e)
        called == IF insn.op = "syscall"
                  THEN [e EXCEPT !.pending_syscall = Some(SyscallToApply(e, host))]
                  ELSE e
        m == IF insn.op = "syscall"
             THEN StoreRecord(MonitorAccess(e.monitor, insn), called.pending_syscall[1])
             ELSE MonitorAccess(e.monitor, insn)
        op_result == OpResult(e, insn)
        total_pending_cycles ==
            total_cycles([e EXCEPT !.monitor = m]) + OpCycles(insn)
                + op_result.extra_cycles
    IN IF SessionLimitReached(e)
       THEN [res |-> "Ok", exit_code |-> Some(SessionLimit), exec |-> e]
       ELSE IF insn = NoInsn \/ insn.op = "illegal" \/ op_result.err
       THEN [res |-> "Err", exit_code |-> None, exec |-> e]
       ELSE IF insn.op = "trap"
       THEN [res |-> IF fp THEN "Ok" ELSE "Err",
             exit_code |-> IF fp THEN Some(Fault) ELSE None,
             exec |-> [e EXCEPT !.split_insn = Some(e.insn_counter)]]
       ELSE IF ExceedsSegment(total_pending_cycles, e.segment_limit)
       THEN [res |-> "Ok", exit_code |-> Some(SystemSplit),
             exec |-> [called EXCEPT !.split_insn = Some(e.insn_counter)]]
       ELSE [res |-> "Ok", exit_code |-> op_result.exit_code,
             exec |-> Advance(called, m, insn, op_result)]

step(e, insn, fp, host) ==
    LET pre_cycles == total_cycles(e)
        called == IF insn.op = "syscall"
                  THEN [e EXCEPT !.pending_syscall = Some(SyscallToApply(e, host))]
                  ELSE e
        m == IF insn.op = "syscall"
             THEN StoreRecord(MonitorAccess(e.monitor, insn), called.pending_syscall[1])
             ELSE MonitorAccess(e.monitor, insn)
        op_result == OpResult(e, insn)
        total_pending_cycles ==
            total_cycles([e EXCEPT !.monitor = m]) + OpCycles(insn)
                + op_result.extra_cycles
    IN IF SessionLimitReached(e)
       THEN [res |-> "Ok", exit_code |-> Some(SessionLimit), exec |-> e]
       ELSE IF insn = NoInsn \/ insn.op = "illegal" \/ op_result.err
       THEN [res |-> "Err", exit_code |-> None, exec |-> e]
       ELSE IF insn.op = "trap"
       THEN [res |-> IF fp THEN "Ok" ELSE "Err",
             exit_code |-> IF fp THEN Some(Fault) ELSE None,
             exec |-> [e EXCEPT !.split_insn = Some(e.insn_counter)]]
       ELSE IF total_pending_cycles - pre_cycles > e.segment_limit
       THEN [res |-> "Err", exit_code |-> None, exec |-> called]
       ELSE IF ExceedsSegment(total_pending_cycles, e.segment_limit)
       THEN [res |-> "Ok", exit_code |-> Some(SystemSplit),
             exec |-> [called EXCEPT !.split_insn = Some(e.insn_counter)]]
       ELSE [res |-> "Ok", exit_code |-> op_result.exit_code,
             exec |-> Advance(called, m, insn, op_result)]

\* ExecutorImpl::split.
split_KeepPreImage(e, image) ==
    [e EXCEPT !.body_cycles = 0,
              !.split_insn = None,
              !.insn_counter = 0,
              !.segment_cycle = init_cycles,
              !.monitor = ClearSegment(@)]

split(e, image) ==
    [e EXCEPT !.pre_image = image,
              !.body_cycles = 0,
              !.split_insn = None,
              !.insn_counter = 0,
              !.segment_cycle = init_cycles,
              !.monitor = ClearSegment(@)]

\* Segment::new with the segments numbered from one.
NewSegment_IndexFromOne(e, exit_code) ==
    [pre_image |-> e.pre_image,
     post_image_id |-> ImageId(BuildImage(e.monitor, e.pc)),
     syscalls |-> e.syscalls,
     exit_code |-> exit_code,
     split_insn |-> e.split_insn,
     po2 |-> Log2Ceil(NextPowerOfTwo(total_cycles(e))),
     index |-> Len(e.segments) + 1,
     cycles |-> e.body_cycles]

\* Segment::new as the run loop calls it once step() has returned exit_code.
NewSegment(e, exit_code) ==
    [pre_image |-> e.pre_image,
     post_image_id |-> ImageId(BuildImage(e.monitor, e.pc)),
     syscalls |-> e.syscalls,
     exit_code |-> exit_code,
     split_insn |-> e.split_insn,
     po2 |-> Log2Ceil(NextPowerOfTwo(total_cycles(e))),
     index |-> Len(e.segments),
     cycles |-> e.body_cycles]

\* Session::new that does not keep the exit code of the run.
NewSession_NoExitCode(segments, j, exit_code) ==
    [segments |-> segments, journal |-> j, exit_code |-> SystemSplit]

\* Session::new.
NewSession(segments, j, exit_code) ==
    [segments |-> segments, journal |-> j, exit_code |-> exit_code]

\* The fault checker is a fixed guest run by an executor of its own with the
\* default environment (run_fault_checker).  Its session is summarised: n
\* segments from the checker's image, the last with the exit code final.
CheckerImage(k) == Image("checker", 1 + k, k)

CheckerJournal == <<2>>

CheckerSession(n, final) ==
    NewSession(
        [i \in 1..n |->
            [pre_image |-> CheckerImage(i - 1),
             post_image_id |-> ImageId(CheckerImage(i)),
             syscalls |-> <<>>,
             exit_code |-> IF i = n THEN final ELSE SystemSplit,
             split_insn |-> IF i = n THEN None ELSE Some(1),
             po2 |-> DEFAULT_SEGMENT_LIMIT_PO2,
             index |-> i - 1,
             cycles |-> 1]],
        CheckerJournal, final)

CheckerSessions ==
    {CheckerSession(n, final) : n \in 1..MaxCheckerSegments,
                               final \in {Halted(0), Halted(1)}}

\* What the run loop does once step() has returned exit_code, and what the
\* call then returns: the segment is built, handed to the callback and
\* pushed; SystemSplit continues the loop, SessionLimit bails, the other exit
\* codes end the session.  checker is the session of the fault checker, which
\* run_with_callback runs when the guest's session ended in Fault.
RunLoop_SessionLimitReturns(e, exit_code, j, a, checker, log) ==
    IF total_cycles(e) > e.segment_limit
    THEN [exec |-> e, status |-> "panic", session |-> NoSession, emitted |-> log]
    ELSE
    LET segment == NewSegment(e, exit_code)
        post_image == BuildImage(e.monitor, e.pc)
        pushed == [e EXCEPT !.segments = Append(@, segment), !.syscalls = <<>>]
        last == IF exit_code.kind = "Halted" THEN pushed ELSE split(pushed, post_image)
        guest_session == NewSession(last.segments, j, exit_code)
        returned == [last EXCEPT !.exit_code = Some(exit_code), !.segments = <<>>]
    IN CASE exit_code = SystemSplit ->
              [exec |-> split(pushed, post_image), status |-> "running",
               session |-> NoSession, emitted |-> Append(log, segment)]
         [] exit_code = Fault /\ a = "run_with_callback" ->
              IF checker.exit_code # Halted(0)
              THEN [exec |-> returned, status |-> "error",
                    session |-> NoSession, emitted |-> Append(log, segment)]
              ELSE [exec |-> returned, status |-> "fault",
                    session |-> [guest_session EXCEPT
                                     !.segments = @ \o checker.segments,
                                     !.journal = checker.journal],
                    emitted |-> Append(log, segment)]
         [] OTHER ->
              [exec |-> returned, status |-> "ok",
               session |-> guest_session, emitted |-> Append(log, segment)]

RunLoop_SplitSkipsCallback(e, exit_code, j, a, checker, log) ==
    IF total_cycles(e) > e.segment_limit
    THEN [exec |-> e, status |-> "panic", session |-> NoSession, emitted |-> log]
    ELSE
    LET segment == NewSegment(e, exit_code)
        post_image == BuildImage(e.monitor, e.pc)
        pushed == [e EXCEPT !.segments = Append(@, segment), !.syscalls = <<>>]
        last == IF exit_code.kind = "Halted" THEN pushed ELSE split(pushed, post_image)
        guest_session == NewSession(last.segments, j, exit_code)
        returned == [last EXCEPT !.exit_code = Some(exit_code), !.segments = <<>>]
    IN CASE exit_code = SystemSplit ->
              [exec |-> split(pushed, post_image), status |-> "running",
               session |-> NoSession, emitted |-> log]
         [] exit_code = SessionLimit ->
              [exec |-> pushed, status |-> "error",
               session |-> NoSession, emitted |-> Append(log, segment)]
         [] exit_code = Fault /\ a = "run_with_callback" ->
              IF checker.exit_code # Halted(0)
              THEN [exec |-> returned, status |-> "error",
                    session |-> NoSession, emitted |-> Append(log, segment)]
              ELSE [exec |-> returned, status |-> "fault",
                    session |-> [guest_session EXCEPT
                                     !.segments = @ \o checker.segments,
                                     !.journal = checker.journal],
                    emitted |-> Append(log, segment)]
         [] OTHER ->
              [exec |-> returned, status |-> "ok",
               session |-> guest_session, emitted |-> Append(log, segment)]

RunLoop_KeepsGuestJournal(e, exit_code, j, a, checker, log) ==
    IF total_cycles(e) > e.segment_limit
    THEN [exec |-> e, status |-> "panic", session |-> NoSession, emitted |-> log]
    ELSE
    LET segment == NewSegment(e, exit_code)
        post_image == BuildImage(e.monitor, e.pc)
        pushed == [e EXCEPT !.segments = Append(@, segment), !.syscalls = <<>>]
        last == IF exit_code.kind = "Halted" THEN pushed ELSE split(pushed, post_image)
        guest_session == NewSession(last.segments, j, exit_code)
        returned == [last EXCEPT !.exit_code = Some(exit_code), !.segments = <<>>]
    IN CASE exit_code = SystemSplit ->
              [exec |-> split(pushed, post_image), status |-> "running",
               session |-> NoSession, emitted |-> Append(log, segment)]
         [] exit_code = SessionLimit ->
              [exec |-> pushed, status |-> "error",
               session |-> NoSession, emitted |-> Append(log, segment)]
         [] exit_code = Fault /\ a = "run_with_callback" ->
              IF checker.exit_code # Halted(0)
              THEN [exec |-> returned, status |-> "error",
                    session |-> NoSession, emitted |-> Append(log, segment)]
              ELSE [exec |-> returned, status |-> "fault",
                    session |-> [guest_session EXCEPT
                                     !.segments = @ \o checker.segments,
                                     !.journal = j],
                    emitted |-> Append(log, segment)]
         [] OTHER ->
              [exec |-> returned, status |-> "ok",
               session |-> guest_session, emitted |-> Append(log, segment)]

\* The run loop that leaves the SessionLimit segment out of self.segments.
RunLoop_SessionLimitNotStored(e, exit_code, j, a, checker, log) ==
    IF total_cycles(e) > e.segment_limit
    THEN [exec |-> e, status |-> "panic", session |-> NoSession, emitted |-> log]
    ELSE
    LET segment == NewSegment(e, exit_code)
        post_image == BuildImage(e.monitor, e.pc)
        pushed == [e EXCEPT !.segments = Append(@, segment), !.syscalls = <<>>]
        last == IF exit_code.kind = "Halted" THEN pushed ELSE split(pushed, post_image)
        guest_session == NewSession(last.segments, j, exit_code)
        returned == [last EXCEPT !.exit_code = Some(exit_code), !.segments = <<>>]
    IN CASE exit_code = SystemSplit ->
              [exec |-> split(pushed, post_image), status |-> "running",
               session |-> NoSession, emitted |-> Append(log, segment)]
         [] exit_code = SessionLimit ->
              [exec |-> e, status |-> "error",
               session |-> NoSession, emitted |-> Append(log, segment)]
         [] exit_code = Fault /\ a = "run_with_callback" ->
              IF checker.exit_code # Halted(0)
              THEN [exec |-> returned, status |-> "error",
                    session |-> NoSession, emitted |-> Append(log, segment)]
              ELSE [exec |-> returned, status |-> "fault",
                    session |-> [guest_session EXCEPT
                                     !.segments = @ \o checker.segments,
                                     !.journal = checker.journal],
                    emitted |-> Append(log, segment)]
         [] OTHER ->
              [exec |-> returned, status |-> "ok",
               session |-> guest_session, emitted |-> Append(log, segment)]

RunLoop(e, exit_code, j, a, checker, log) ==
    IF total_cycles(e) > e.segment_limit
    THEN [exec |-> e, status |-> "panic", session |-> NoSession, emitted |-> log]
    ELSE
    LET segment == NewSegment(e, exit_code)
        post_image == BuildImage(e.monitor, e.pc)
        pushed == [e EXCEPT !.segments = Append(@, segment), !.syscalls = <<>>]
        last == IF exit_code.kind = "Halted" THEN pushed ELSE split(pushed, post_image)
        guest_session == NewSession(last.segments, j, exit_code)
        returned == [last EXCEPT !.exit_code = Some(exit_code), !.segments = <<>>]
    IN CASE exit_code = SystemSplit ->
              [exec |-> split(pushed, post_image), status |-> "running",
               session |-> NoSession, emitted |-> Append(log, segment)]
         [] exit_code = SessionLimit ->
              [exec |-> pushed, status |-> "error",
               session |-> NoSession, emitted |-> Append(log, segment)]
         [] exit_code = Fault /\ a = "run_with_callback" ->
              IF checker.exit_code # Halted(0)
              THEN [exec |-> returned, status |-> "error",
                    session |-> NoSession, emitted |-> Append(log, segment)]
              ELSE [exec |-> returned, status |-> "fault",
                    session |-> [guest_session EXCEPT
                                     !.segments = @ \o checker.segments,
                                     !.journal = checker.journal],
                    emitted |-> Append(log, segment)]
         [] OTHER ->
              [exec |-> returned, status |-> "ok",
               session |-> guest_session, emitted |-> Append(log, segment)]

\* The instruction at pc: one fetched before, a new one of the guest's code,
\* or nothing beyond the end of the program.
Fetched ==
    IF SessionLimitReached(exec) THEN {NoInsn}
    ELSE IF exec.pc <= Len(prog) THEN {prog[exec.pc]}
    ELSE IF Len(prog) < MaxProgLen THEN InsnSet
    ELSE {NoInsn}

\* The fault checker runs only behind a Fault of the guest.
CheckerRuns(insn) ==
    IF insn.op = "trap" /\ fault_proof /\ api = "run_with_callback"
    THEN CheckerSessions ELSE {CheckerSession(1, Halted(0))}

\* What the host handler returns when ecall_software invokes it.
HandlerReturns(insn) ==
    IF InvokesHandler(exec, insn) THEN HandlerResults ELSE {1}

\* A call of run_with_callback or run_guest_only_with_callback up to the run
\* loop: a halted execution cannot be resumed.  The caller calls again after
\* a session was returned, not after an error.
Run_ResumesHalted(a) ==
    /\ status \in {"ready", "ok", "fault"}
    /\ runs < MaxRuns
    /\ runs' = runs + 1
    /\ api' = a
    /\ session' = NoSession
    /\ IF FALSE
       THEN /\ status' = "error"
            /\ UNCHANGED <<exec, journal>>
       ELSE /\ status' = "running"
            /\ exec' = [exec EXCEPT !.monitor = ClearSession(@)]
            /\ journal' = <<>>
    /\ UNCHANGED <<fault_proof, prog, emitted, handler_log>>
    /\ UNCHANGED <<varsV, varsB, varsT, varsI, varsA>>

Run(a) ==
    /\ status \in {"ready", "ok", "fault"}
    /\ runs < MaxRuns
    /\ runs' = runs + 1
    /\ api' = a
    /\ session' = NoSession
    /\ IF exec.exit_code # None /\ exec.exit_code[1].kind = "Halted"
       THEN /\ status' = "error"
            /\ UNCHANGED <<exec, journal>>
       ELSE /\ status' = "running"
            /\ exec' = [exec EXCEPT !.monitor = ClearSession(@)]
            /\ journal' = <<>>
    /\ UNCHANGED <<fault_proof, prog, emitted, handler_log>>
    /\ UNCHANGED <<varsV, varsB, varsT, varsI, varsA>>

RunWithCallback == Run("run_with_callback")

RunGuestOnlyWithCallback == Run("run_guest_only_with_callback")

\* One iteration of the run loop.
Step ==
    /\ status = "running"
    /\ \E insn \in Fetched : \E checker \in CheckerRuns(insn) :
      \E host \in HandlerReturns(insn) :
        LET r == step(exec, insn, fault_proof, host)
            out == RunLoop(r.exec, r.exit_code[1], journal, api, checker, emitted)
        IN /\ prog' = IF exec.pc > Len(prog) /\ insn # NoInsn
                      THEN Append(prog, insn) ELSE prog
           /\ handler_log' = IF InvokesHandler(exec, insn)
                             THEN Append(handler_log, <<exec.pc, host>>)
                             ELSE handler_log
           /\ IF r.res = "Err"
              THEN /\ exec' = r.exec
                   /\ status' = "error"
                   /\ UNCHANGED <<session, emitted>>
              ELSE IF r.exit_code = None
              THEN /\ exec' = r.exec
                   /\ UNCHANGED <<status, session, emitted>>
              ELSE /\ exec' = out.exec
                   /\ status' = out.status
                   /\ session' = out.session
                   /\ emitted' = out.emitted
    /\ UNCHANGED <<fault_proof, journal, api, runs>>
    /\ UNCHANGED <<varsV, varsB, varsT, varsI, varsA>>

InitE ==
    /\ IdleV
    /\ fault_proof \in BOOLEAN
    /\ prog = <<>>
    /\ \E env \in EnvChoices :
        LET made == WithObjCtx(env, GuestImage)
        IN /\ exec = made.exec
           /\ status = IF made.res = "Ok" THEN "ready" ELSE "invalid"
    /\ journal = <<>>
    /\ api = "none"
    /\ runs = 0
    /\ session = NoSession
    /\ emitted = <<>>
    /\ handler_log = <<>>
    /\ IdleB
    /\ IdleT
    /\ IdleI
    /\ IdleA

NextE ==
    \/ RunWithCallback
    \/ RunGuestOnlyWithCallback
    \/ Step

SpecE == InitE /\ [][NextE]_vars

(***************************************************************************)
(* The bigint ecall (ExecutorImpl::ecall_bigint), explored under SpecB.    *)
(***************************************************************************)

BIGINT_CYCLES == 9

\* The words of one operand (bigint::WIDTH_WORDS) and the bits of one word,
\* scaled down so that the double-width product stays a small integer.
BigIntWords == 2
BigIntWordBits == 3

WordBase == 2 ^ BigIntWordBits

\* The number of values of one operand: 2^256 in the code.
BigIntRange == WordBase ^ BigIntWords

RECURSIVE FromLeWords(_)
\* U256::from_le_bytes of the words loaded from guest memory, lowest first.
FromLeWords(words) ==
    IF words = <<>> THEN 0
    ELSE Head(words) + WordBase * FromLeWords(Tail(words))

\* U256::to_le_bytes cast to words, lowest first.
ToLeWords(v) ==
    [i \in 1..BigIntWords |-> (v \div (WordBase ^ (i - 1))) % WordBase]

\* What ecall_bigint leaves: how it ended, the words stored at z_ptr when it
\* stored any, and its OpCodeResult.
BigIntOutcome(res, z, op_result) == [res |-> res, z |-> z, op_result |-> op_result]

EcallBigint_Wrapping(e, op, x_words, y_words, n_words) ==
    LET x == FromLeWords(x_words)
        y == FromLeWords(y_words)
        n == FromLeWords(n_words)
        w == x * y
        z == IF n = 0 THEN w % BigIntRange ELSE (w % n) % BigIntRange
    IN IF op # 0 THEN BigIntOutcome("Err", None, Bail)
       ELSE BigIntOutcome("Ok", Some(ToLeWords(z)),
                          OpCodeResult(e.pc + 1, None, BIGINT_CYCLES))

\* ExecutorImpl::ecall_bigint.  checked_mul(..).unwrap() panics when the
\* product does not fit the operand width.
EcallBigint(e, op, x_words, y_words, n_words) ==
    LET x == FromLeWords(x_words)
        y == FromLeWords(y_words)
        n == FromLeWords(n_words)
        w_lo == (x * y) % BigIntRange
        w_hi == (x * y) \div BigIntRange
        w == w_hi * BigIntRange + w_lo
    IN IF op # 0 THEN BigIntOutcome("Err", None, Bail)
       ELSE IF n = 0 /\ x * y >= BigIntRange
       THEN BigIntOutcome("Panic", None, Bail)
       ELSE LET z == IF n = 0 THEN x * y ELSE (w % n) % BigIntRange
            IN BigIntOutcome("Ok", Some(ToLeWords(z)),
                             OpCodeResult(e.pc + 1, None, BIGINT_CYCLES))

\* Operand values the guest may hold: the small ones and those around the top
\* bit of the operand.
OperandValues ==
    {0, 1, 2, 3, BigIntRange \div 2, BigIntRange \div 2 + 1, BigIntRange - 1}

Operands == {ToLeWords(v) : v \in OperandValues}

\* The op register (a1) of the call.
OpChoices == {0, 1}

InitB ==
    /\ IdleV
    /\ IdleE
    /\ IdleT
    /\ IdleI
    /\ IdleA
    /\ \E op \in OpChoices, x \in Operands, y \in Operands, n \in Operands :
        bigint = [pc |-> 0, op |-> op, x |-> x, y |-> y, n |-> n,
                  done |-> FALSE, out |-> BigIntOutcome("None", None, Bail)]

\* The guest executes the bigint ecall.
CallBigint ==
    /\ bigint # <<>>
    /\ ~bigint.done
    /\ bigint' =
        [bigint EXCEPT
            !.done = TRUE,
            !.out = EcallBigint([pc |-> bigint.pc], bigint.op, bigint.x,
                                bigint.y, bigint.n)]
    /\ UNCHANGED <<varsV, varsE, varsT, varsI, varsA>>

NextB == CallBigint

SpecB == InitB /\ [][NextB]_vars

(***************************************************************************)
(* The busy loop of the recursion tests (generate_busy_loop_segments),     *)
(* explored under SpecL: one run of a guest that executes                  *)
(* BusyLoopInstructions plain instructions and halts.                      *)
(***************************************************************************)

BusyLoopPo2 == 16

\* The length of the loop in segment limits.
BusyLoopLimits == 3

BusyLoopInstructions == BusyLoopLimits * 2 ^ BusyLoopPo2

BusyLoopEnv == [segment_limit_po2 |-> Some(BusyLoopPo2), session_limit |-> None]

\* The instruction of the busy loop guest at pc: the loop, then the halt.
BusyLoopInsn(p) ==
    IF p <= BusyLoopInstructions THEN Insn("plain", 0)
    ELSE Insn("halt", HaltWord(halt_TERMINATE, 0))

InitL ==
    /\ IdleV
    /\ IdleB
    /\ IdleT
    /\ IdleI
    /\ IdleA
    /\ fault_proof = FALSE
    /\ prog = <<>>
    /\ exec = WithObjCtx(BusyLoopEnv, GuestImage).exec
    /\ status = "ready"
    /\ journal = <<>>
    /\ api = "none"
    /\ runs = 0
    /\ session = NoSession
    /\ emitted = <<>>
    /\ handler_log = <<>>

\* exec.run(), called once.
RunBusyLoop ==
    /\ status = "ready"
    /\ Run("run_with_callback")

\* One iteration of the run loop on the busy loop guest.
StepBusyLoop ==
    /\ status = "running"
    /\ LET insn == BusyLoopInsn(exec.pc)
           r == step(exec, insn, fault_proof, 1)
           out == RunLoop(r.exec, r.exit_code[1], journal, api,
                          CheckerSession(1, Halted(0)), emitted)
       IN IF r.res = "Err"
          THEN /\ exec' = r.exec
               /\ status' = "error"
               /\ UNCHANGED <<session, emitted>>
          ELSE IF r.exit_code = None
          THEN /\ exec' = r.exec
               /\ UNCHANGED <<status, session, emitted>>
          ELSE /\ exec' = out.exec
               /\ status' = out.status
               /\ session' = out.session
               /\ emitted' = out.emitted
    /\ UNCHANGED <<fault_proof, prog, journal, api, runs, handler_log>>
    /\ UNCHANGED <<varsV, varsB, varsT, varsI, varsA>>

NextL ==
    \/ RunBusyLoop
    \/ StepBusyLoop

SpecL == InitL /\ [][NextL]_vars

(***************************************************************************)
(* A guest whose SHA ecall fits the segment limit but not what a segment   *)
(* has left of it, explored under SpecS: one run at the smallest segment   *)
(* limit, watched for MaxSplits segments.                                  *)
(***************************************************************************)

\* The blocks of the SHA ecall: its cost is below the segment limit of
\* 2^MIN_CYCLES_PO2 cycles and above that limit less const_cycles.
MidShaBlocks == 45

\* The plain instructions the guest executes before the ecall.
SplitLoopPrefix == 100

MaxSplits == 4

SplitLoopEnv == [segment_limit_po2 |-> Some(MIN_CYCLES_PO2), session_limit |-> None]

\* The instruction of the guest at pc: the prefix, the SHA ecall, the halt.
SplitLoopInsn(p) ==
    IF p <= SplitLoopPrefix THEN Insn("plain", 0)
    ELSE IF p = SplitLoopPrefix + 1 THEN Insn("sha", MidShaBlocks)
    ELSE Insn("halt", HaltWord(halt_TERMINATE, 0))

InitS ==
    /\ IdleV
    /\ IdleB
    /\ IdleT
    /\ IdleI
    /\ IdleA
    /\ fault_proof = FALSE
    /\ prog = <<>>
    /\ exec = WithObjCtx(SplitLoopEnv, GuestImage).exec
    /\ status = "ready"
    /\ journal = <<>>
    /\ api = "none"
    /\ runs = 0
    /\ session = NoSession
    /\ emitted = <<>>
    /\ handler_log = <<>>

\* exec.run(), called once.
RunSplitLoop ==
    /\ status = "ready"
    /\ Run("run_with_callback")

\* One iteration of the run loop on the guest, while fewer than MaxSplits
\* segments were emitted.
StepSplitLoop ==
    /\ status = "running"
    /\ Len(emitted) < MaxSplits
    /\ LET insn == SplitLoopInsn(exec.pc)
           r == step(exec, insn, fault_proof, 1)
           out == RunLoop(r.exec, r.exit_code[1], journal, api,
                          CheckerSession(1, Halted(0)), emitted)
       IN IF r.res = "Err"
          THEN /\ exec' = r.exec
               /\ status' = "error"
               /\ UNCHANGED <<session, emitted>>
          ELSE IF r.exit_code = None
          THEN /\ exec' = r.exec
               /\ UNCHANGED <<status, session, emitted>>
          ELSE /\ exec' = out.exec
               /\ status' = out.status
               /\ session' = out.session
               /\ emitted' = out.emitted
    /\ UNCHANGED <<fault_proof, prog, journal, api, runs, handler_log>>
    /\ UNCHANGED <<varsV, varsB, varsT, varsI, varsA>>

NextS ==
    \/ RunSplitLoop
    \/ StepSplitLoop

SpecS == InitS /\ [][NextS]_vars

(***************************************************************************)
(* Properties of the receipt verifier, checked under SpecV.                *)
(***************************************************************************)
Segs == receipt.segments

FinalSegment == Segs[Len(Segs)]

IntegrityOps == {"composite_verify_integrity", "verify_integrity"}

AllSealsAccepted ==
    \A i \in 1..Len(Segs) : SegmentVerifyIntegrity(Segs[i]) = "Ok"

AllAssumptionsAccepted ==
    \A i \in 1..Len(receipt.assumptions) :
        InnerVerifyIntegrity(receipt.assumptions[i], verdict.dev) = "Ok"

Chained == \A i \in 1..(Len(Segs) - 1) : Segs[i].post = Segs[i + 1].pre

\* C1: when CompositeReceipt::verify_integrity_with_context returns Ok, the
\* proof system accepted every segment receipt and every assumption receipt,
\* and each segment's post digest equals the next segment's pre digest.
C1_OkImpliesSealsAndChain ==
    (verdict.op = "composite_verify_integrity" /\ verdict.res = "Ok")
        => (AllSealsAccepted /\ AllAssumptionsAccepted /\ Chained)

C1_Witness ==
    /\ verdict.op = "composite_verify_integrity"
    /\ verdict.res = "Ok"
    /\ Len(Segs) = MaxSegments
    /\ Len(receipt.assumptions) = 1
    /\ altered # <<>>

\* C2 as claimed: altering the reported pre digest of any one segment of an
\* honest receipt (first, middle or last) makes verify_integrity return
\* ImageVerificationError.
C2_AnyPreTamperDetected ==
    (Len(altered) = 1 /\ altered[1][1] = "pre" /\ verdict.op \in IntegrityOps)
        => verdict.res = "ImageVerificationError"

\* C2 amended: altering the reported pre digest of any segment but the first
\* makes verify_integrity return ImageVerificationError; altering the pre
\* digest of the first segment is not detected by verify_integrity, which
\* has no image id to compare it with.
C2_LaterPreTamperDetected ==
    (Len(altered) = 1 /\ altered[1][1] = "pre" /\ verdict.op \in IntegrityOps)
        => IF altered[1][2] > 1
              THEN verdict.res = "ImageVerificationError"
              ELSE verdict.res = "Ok"

C2_Witness ==
    /\ altered = <<<<"pre", 2>>>>
    /\ Len(Segs) = MaxSegments
    /\ verdict.op = "verify_integrity"
    /\ verdict.res = "ImageVerificationError"

\* C3: Receipt::verify returns Ok only when the final exit code is Halted(0)
\* or Paused(0); a receipt that passes the integrity and image checks with any
\* other final exit code is rejected with UnexpectedExitCode.
C3_VerifyRequiresSuccessExit ==
    verdict.op = "verify" =>
        /\ verdict.res = "Ok" => FinalSegment.exit_code \in {Halted(0), Paused(0)}
        /\ ( /\ CompositeVerifyIntegrity(receipt, verdict.dev) = "Ok"
             /\ Segs[1].pre = verdict.image_id
             /\ FinalSegment.exit_code \notin {Halted(0), Paused(0)} )
           => verdict.res = "UnexpectedExitCode"

C3_Witness ==
    /\ verdict.op = "verify"
    /\ verdict.res = "UnexpectedExitCode"
    /\ FinalSegment.exit_code = Halted(1)
    /\ altered = <<>>

\* C4: Receipt::verify returns Ok only when the pre digest of the first
\* segment equals image_id; a receipt that passes the integrity check with
\* another first pre digest is rejected with ImageVerificationError.
C4_VerifyRequiresImageId ==
    verdict.op = "verify" =>
        /\ verdict.res = "Ok" => Segs[1].pre = verdict.image_id
        /\ ( /\ CompositeVerifyIntegrity(receipt, verdict.dev) = "Ok"
             /\ Segs[1].pre # verdict.image_id )
           => verdict.res = "ImageVerificationError"

C4_Witness ==
    /\ verdict.op = "verify"
    /\ verdict.res = "ImageVerificationError"
    /\ CompositeVerifyIntegrity(receipt, verdict.dev) = "Ok"
    /\ Segs[1].pre # verdict.image_id
    /\ Len(Segs) > 1

\* C5 as claimed: altering only the declared journal bytes of a receipt that
\* passes verify_integrity, whatever its final exit code, makes
\* Receipt::verify_integrity_with_context return JournalDigestMismatch.
C5_JournalTamperDetected ==
    (Len(altered) = 1 /\ altered[1][1] = "journal" /\ verdict.op = "verify_integrity")
        => verdict.res = "JournalDigestMismatch"

\* C6: when the proof system rejects the seal of one segment or of one
\* assumption of an honest receipt, verify_integrity returns that error; and
\* whatever the other fields hold, no entry point returns Ok while a seal or
\* an assumption is rejected.
C6_RejectedSealNeverOk ==
    /\ (Len(altered) = 1 /\ altered[1][1] = "seal" /\ verdict.op \in IntegrityOps)
            => verdict.res = Segs[altered[1][2]].seal
    /\ ( /\ altered = <<<<"assumptions", 0>>>>
         /\ receipt.assumptions = <<BrokenAssumption>>
         /\ verdict.op \in IntegrityOps )
            => verdict.res = "InvalidProof"
    /\ (verdict.op # "none" /\ ~(AllSealsAccepted /\ AllAssumptionsAccepted))
            => verdict.res # "Ok"

C6_Witness ==
    /\ altered = <<<<"seal", 2>>>>
    /\ Len(Segs) = MaxSegments
    /\ verdict.op = "composite_verify_integrity"
    /\ verdict.res = "ControlVerificationError"

\* Segment receipt i is the first that the loop over the non-final receipts
\* can reject for its exit code or output: the receipts before it pass every
\* check of the loop, and its own seal and chaining pass.
PassesSealAndChain(i) ==
    /\ SegmentVerifyIntegrity(Segs[i]) = "Ok"
    /\ i > 1 => Segs[i - 1].post = Segs[i].pre

ReachesExitCheck(i) ==
    /\ PassesSealAndChain(i)
    /\ \A j \in 1..(i - 1) :
          /\ PassesSealAndChain(j)
          /\ Segs[j].exit_code = SystemSplit
          /\ OutputIsNone(Segs[j].output)

\* C16: every entry point starts with the composite's verify_integrity.  It
\* rejects an empty segment list with ReceiptFormatError; it never accepts a
\* receipt with a non-final segment whose exit code is not SystemSplit or
\* that carries an output; and when that segment is the first the loop finds
\* fault with, the error is UnexpectedExitCode for the exit code and
\* ReceiptFormatError for the output.
C16_NonFinalSegmentChecks ==
    verdict.op # "none" =>
        /\ Len(Segs) = 0 => verdict.res = "ReceiptFormatError"
        /\ \A i \in 1..(Len(Segs) - 1) :
              /\ (Segs[i].exit_code # SystemSplit \/ OutputIsSome(Segs[i].output))
                    => verdict.res # "Ok"
              /\ (ReachesExitCheck(i) /\ Segs[i].exit_code # SystemSplit)
                    => verdict.res = "UnexpectedExitCode"
              /\ ( /\ ReachesExitCheck(i)
                   /\ Segs[i].exit_code = SystemSplit
                   /\ OutputIsSome(Segs[i].output) )
                    => verdict.res = "ReceiptFormatError"

\* The middle segment of three reports Halted(0) instead of SystemSplit.
C16_Witness ==
    /\ altered = <<<<"exit_code", 2>>>>
    /\ Len(Segs) = MaxSegments
    /\ Segs[2].exit_code = Halted(0)
    /\ verdict.op = "verify_integrity"
    /\ verdict.res = "UnexpectedExitCode"

\* The receipt passes every check that verify_integrity of the composite
\* makes before it looks at the output of the final segment.
ReachesOutputCheck ==
    /\ Len(Segs) > 0
    /\ AllSealsAccepted
    /\ Chained
    /\ \A i \in 1..(Len(Segs) - 1) :
          Segs[i].exit_code = SystemSplit /\ OutputIsNone(Segs[i].output)
    /\ AllAssumptionsAccepted

\* The output recomputed from the declared journal digest and the metadata
\* of the assumptions differs from the output of the final segment.
OutputMismatch ==
    /\ ExpectsOutput(FinalSegment.exit_code)
    /\ OutputIsSome(FinalSegment.output)
    /\ receipt.journal_digest # None
    /\ OutputDigest(receipt.journal_digest, AssumptionsMetadata(receipt.assumptions))
           # FinalSegment.output

\* C17 as claimed: when the recomputed output differs from the output of the
\* final segment, verify_integrity of the composite receipt returns
\* JournalDigestMismatch.
C17_MismatchIsJournalDigestMismatch ==
    ( /\ verdict.op = "composite_verify_integrity"
      /\ ReachesOutputCheck
      /\ OutputMismatch )
        => verdict.res = "JournalDigestMismatch"

\* C17 amended: when the final exit code expects output and the final
\* segment has one, verify_integrity of the composite receipt accepts exactly
\* when a journal digest is declared and the recomputed output equals the
\* final segment's; a mismatch is ReceiptFormatError.  Otherwise it accepts
\* exactly when the final segment has no output and the composite declares
\* neither assumptions nor a journal digest, and rejects with
\* ReceiptFormatError.  It never returns JournalDigestMismatch.
C17_MismatchIsReceiptFormatError ==
    verdict.op = "composite_verify_integrity" =>
        /\ verdict.res # "JournalDigestMismatch"
        /\ ReachesOutputCheck =>
              /\ verdict.res \in {"Ok", "ReceiptFormatError"}
              /\ verdict.res = "Ok" <=>
                    IF ExpectsOutput(FinalSegment.exit_code)
                           /\ OutputIsSome(FinalSegment.output)
                    THEN /\ receipt.journal_digest # None
                         /\ ~OutputMismatch
                    ELSE /\ OutputIsNone(FinalSegment.output)
                         /\ receipt.assumptions = <<>>
                         /\ receipt.journal_digest = None

\* The declared journal digest of an honest receipt was replaced by another
\* digest, so that the recomputed output no longer matches.
C17_Witness ==
    /\ altered = <<<<"journal_digest", 0>>>>
    /\ verdict.op = "composite_verify_integrity"
    /\ ReachesOutputCheck
    /\ OutputMismatch
    /\ Len(Segs) = MaxSegments
    /\ verdict.res = "ReceiptFormatError"

\* C18: a receipt whose final segment has exit code Halted(0) and no output,
\* and whose journal is empty, is accepted by verify_integrity and by verify
\* (for the right image id), whether the composite declares no journal digest
\* or the digest of the empty byte string.
C18_EmptyOutputAccepted ==
    ( /\ verdict.op \in {"verify_integrity", "verify"}
      /\ ReachesOutputCheck
      /\ FinalSegment.exit_code = Halted(0)
      /\ OutputIsNone(FinalSegment.output)
      /\ receipt.journal = <<>>
      /\ receipt.assumptions = <<>>
      /\ receipt.journal_digest \in {None, HashBytes(<<>>)}
      /\ verdict.op = "verify" => verdict.image_id = Segs[1].pre )
        => verdict.res = "Ok"

\* C19 as claimed: Receipt::verify returns Ok only for a receipt whose
\* assumptions list is empty.
C19_VerifyOkOnlyWithoutAssumptions ==
    (verdict.op = "verify" /\ verdict.res = "Ok") => receipt.assumptions = <<>>

\* C19 amended: Receipt::verify returns Ok only when every assumption receipt
\* the composite carries is itself accepted; a receipt with such proven
\* assumptions is accepted by verify when the output of its final segment
\* commits to the journal and to the metadata of exactly those assumptions.
C19_VerifyOkOnlyWithProvenAssumptions ==
    (verdict.op = "verify" /\ verdict.res = "Ok") =>
        /\ AllAssumptionsAccepted
        /\ receipt.assumptions # <<>> =>
              FinalSegment.output =
                  OutputDigest(HashBytes(receipt.journal),
                               AssumptionsMetadata(receipt.assumptions))

\* An untouched receipt of a continuation that carries a proven assumption
\* was accepted by verify.
C19_Witness ==
    /\ verdict.op = "verify"
    /\ verdict.res = "Ok"
    /\ receipt.assumptions = <<ProvenAssumption>>
    /\ Len(Segs) = MaxSegments
    /\ altered = <<>>

(***************************************************************************)
(* Properties of the segmenting executor, checked under SpecE.             *)
(***************************************************************************)
\* A call has returned a Session: Ok(session) or ExecutorError::Fault(session).
SessionReturned == status \in {"ok", "fault"}

\* Segments i and i + 1 of segs continue each other.
Continues(segs, i) ==
    /\ segs[i].post_image_id = ImageId(segs[i + 1].pre_image)
    /\ segs[i].index + 1 = segs[i + 1].index

\* C7 as stated: in every Session the executor returns, the first segment
\* has index 0 and each segment's post image id is the id of the next
\* segment's pre image, with indices increasing by one.
C7_ChainContinuity ==
    SessionReturned =>
        /\ session.segments[1].index = 0
        /\ \A i \in 1..(Len(session.segments) - 1) : Continues(session.segments, i)

\* C7 amended: the first segment has index 0 and every segment that did not
\* end in Fault is continued by the next one; behind the guest's Fault segment
\* run_with_callback appends the fault checker's segments, which start again
\* at index 0 from the checker's own image and continue each other.
C7_ChainContinuityUpToFault ==
    SessionReturned =>
        /\ session.segments[1].index = 0
        /\ \A i \in 1..(Len(session.segments) - 1) :
              IF session.segments[i].exit_code = Fault
              THEN /\ status = "fault"
                   /\ session.segments[i + 1].index = 0
                   /\ session.segments[i + 1].pre_image = CheckerImage(0)
                   /\ ~Continues(session.segments, i)
              ELSE Continues(session.segments, i)

\* A session of three segments, two of them closed by a split, was returned.
C7_Witness ==
    /\ status = "ok"
    /\ Len(session.segments) = 3
    /\ session.segments[1].exit_code = SystemSplit
    /\ session.segments[2].exit_code = SystemSplit
    /\ session.segments[1].post_image_id # session.segments[2].post_image_id

\* C8: the run loop's assertion total_cycles <= segment_limit never fails,
\* and every segment handed to the callback has cycles <= 2^po2 with 2^po2 at
\* most the segment limit (po2 is the ceiling of log2 of the total cycles and
\* the limit is a power of two, so this is total cycles <= limit).
C8_CycleBound ==
    /\ status # "panic"
    /\ \A i \in 1..Len(emitted) :
          /\ emitted[i].cycles <= 2 ^ emitted[i].po2
          /\ 2 ^ emitted[i].po2 <= exec.segment_limit

\* A segment that was closed by a split because the next instruction did not
\* fit, in a session that then ran to its end.
C8_Witness ==
    /\ status = "ok"
    /\ \E i \in 1..Len(emitted) :
          /\ emitted[i].exit_code = SystemSplit
          /\ emitted[i].cycles > 0
          /\ 2 ^ emitted[i].po2 = exec.segment_limit

\* C9 as stated: every segment handed to the callback has po2 within
\* [MIN_CYCLES_PO2, MAX_CYCLES_PO2] and at most the configured
\* segment_limit_po2.
C9_Po2WithinBounds ==
    \A i \in 1..Len(emitted) :
        /\ emitted[i].po2 >= MIN_CYCLES_PO2
        /\ emitted[i].po2 <= MAX_CYCLES_PO2
        /\ 2 ^ emitted[i].po2 <= exec.segment_limit

\* The syscall records of the segments segs, in order.
RECURSIVE SyscallsOf(_)
SyscallsOf(segs) ==
    IF segs = <<>> THEN <<>> ELSE segs[1].syscalls \o SyscallsOf(Tail(segs))

\* The records applied so far: those committed to a segment handed to the
\* callback or to the current segment, then the pending one.
AppliedRecords ==
    SyscallsOf(emitted) \o exec.syscalls
        \o (IF exec.pending_syscall = None THEN <<>> ELSE exec.pending_syscall)

\* C11: the handler is invoked once for each software ecall that was
\* committed or is pending, the records applied are, in order, what the
\* handler returned on those invocations, and a pending record waits for the
\* software ecall at the pc where the handler was invoked.
C11_SyscallReplay ==
    status \in {"ready", "running", "ok", "fault", "error"} =>
        /\ Len(AppliedRecords) = Len(handler_log)
        /\ \A k \in 1..Len(handler_log) :
              AppliedRecords[k] =
                  SyscallRecord(handler_log[k][2], <<handler_log[k][2], 0>>)
        /\ exec.pending_syscall # None =>
              /\ handler_log[Len(handler_log)][1] = exec.pc
              /\ prog[exec.pc].op = "syscall"

\* A software ecall did not fit its segment, was undone by a split and was
\* committed as the first instruction of the next segment, the handler
\* having been invoked once and having returned 2.
C11_Witness ==
    /\ status = "ok"
    /\ handler_log = <<<<2, 2>>>>
    /\ Len(emitted) = 2
    /\ emitted[1].exit_code = SystemSplit
    /\ emitted[1].syscalls = <<>>
    /\ emitted[2].pre_image.pc = 2
    /\ emitted[2].syscalls = <<SyscallRecord(2, <<2, 0>>)>>

\* C12 as stated: when step() returns SystemSplit the executor is as it was
\* before the call, but for the split index: pc, instruction counter, body
\* cycles, the monitor (page cycles, memory, registers) and the syscall log
\* are unchanged and nothing but the split index is recorded.
C12_SplitLeavesNoTrace ==
    status = "running" =>
        \A insn \in Fetched : \A host \in HandlerReturns(insn) :
            LET r == step(exec, insn, fault_proof, host)
            IN (r.res = "Ok" /\ r.exit_code = Some(SystemSplit)) =>
                   r.exec = [exec EXCEPT !.split_insn = Some(exec.insn_counter)]

\* C12 amended: when step() returns SystemSplit the executor is as it was
\* before the call but for the split index and, when the instruction is a
\* software ecall whose handler was invoked, the pending syscall record; the
\* run loop then starts the next segment at the same pc with the instruction
\* counter at 0, from the image of the unchanged memory, keeping the record.
C12_SplitKeepsIndexAndPendingSyscall ==
    status = "running" =>
        \A insn \in Fetched : \A host \in HandlerReturns(insn) :
            LET r == step(exec, insn, fault_proof, host)
                out == RunLoop(r.exec, SystemSplit, journal, api,
                               CheckerSession(1, Halted(0)), emitted)
            IN (r.res = "Ok" /\ r.exit_code = Some(SystemSplit)) =>
                   /\ r.exec = [exec EXCEPT
                                   !.split_insn = Some(exec.insn_counter),
                                   !.pending_syscall = r.exec.pending_syscall]
                   /\ r.exec.pending_syscall # exec.pending_syscall =>
                          (insn.op = "syscall" /\ exec.pending_syscall = None)
                   /\ out.status = "running"
                   /\ out.exec.pc = exec.pc
                   /\ out.exec.insn_counter = 0
                   /\ out.exec.pre_image = BuildImage(exec.monitor, exec.pc)
                   /\ out.exec.pending_syscall = r.exec.pending_syscall
                   /\ out.emitted[Len(out.emitted)].split_insn = Some(exec.insn_counter)
                   /\ out.emitted[Len(out.emitted)].syscalls = exec.syscalls
                   /\ out.emitted[Len(out.emitted)].cycles = exec.body_cycles

\* A segment was just closed by a split on a software ecall: the next segment
\* starts at that ecall with its record pending.
C12_Witness ==
    /\ status = "running"
    /\ exec.insn_counter = 0
    /\ Len(emitted) > 0
    /\ emitted[Len(emitted)].exit_code = SystemSplit
    /\ emitted[Len(emitted)].cycles > 0
    /\ exec.pending_syscall # None
    /\ exec.pc = exec.pre_image.pc
    /\ prog[exec.pc].op = "syscall"

\* The cycles one instruction costs by itself: its base cycles, its extra
\* cycles and the cycles of the pages it brings in or dirties.
InsnCost(e, insn) ==
    LET m == MonitorAccess(e.monitor, insn)
    IN OpCycles(insn) + OpResult(e, insn).extra_cycles
           + (m.page_read_cycles - e.monitor.page_read_cycles)
           + (m.page_write_cycles - e.monitor.page_write_cycles)

\* C13: when the instruction step() executes costs by itself more than the
\* segment limit, step() returns an error, not SystemSplit.
C13_SingleInsnOverBudgetFails ==
    status = "running" =>
        \A insn \in Fetched \ {NoInsn, Insn("trap", 0)} :
            \A host \in HandlerReturns(insn) :
                InsnCost(exec, insn) > exec.segment_limit =>
                    step(exec, insn, fault_proof, host).res = "Err"

\* The run ended in an error at a SHA ecall that costs more than the
\* segment limit by itself, after an earlier instruction was committed.
C13_Witness ==
    /\ status = "error"
    /\ exec.insn_counter > 0
    /\ exec.pc <= Len(prog)
    /\ prog[exec.pc] = Insn("sha", BigShaBlocks)
    /\ InsnCost(exec, prog[exec.pc]) > exec.segment_limit
    /\ emitted = <<>>

\* C14: when the session limit is set and the session's cycle count has
\* reached it, step() returns SessionLimit whatever instruction is at pc, and
\* the executor (pc, memory, cycle counters, syscall log, segments) is as it
\* was before the step.
C14_SessionLimitStepChangesNothing ==
    (/\ status \notin {"none", "invalid"}
     /\ exec.env.session_limit # None
     /\ session_cycle(exec) >= exec.env.session_limit[1]) =>
        \A insn \in InsnSet \cup {NoInsn} : \A host \in HandlerResults :
            step(exec, insn, fault_proof, host) =
                [res |-> "Ok", exit_code |-> Some(SessionLimit), exec |-> exec]

\* The session limit was reached in the middle of a segment, after committed
\* instructions, and the run stopped on it.
C14_Witness ==
    /\ status = "error"
    /\ emitted # <<>>
    /\ emitted[Len(emitted)].exit_code = SessionLimit
    /\ emitted[Len(emitted)].cycles > 0
    /\ exec.insn_counter > 0
    /\ session_cycle(exec) >= SmallSessionLimit

\* C15: when step() returns SessionLimit the run ends with an error, no
\* Session is returned, and the engine executes nothing further: pc and the
\* instruction counter stay where they were and the run loop is left.
C15_SessionLimitIsAnError ==
    [][(/\ status = "running"
        /\ exec.env.session_limit # None
        /\ session_cycle(exec) >= exec.env.session_limit[1]) =>
           /\ status' = "error"
           /\ ~SessionReturned'
           /\ exec'.pc = exec.pc
           /\ exec'.insn_counter = exec.insn_counter
           /\ exec'.exit_code = exec.exit_code
           /\ prog' = prog /\ journal' = journal]_vars

\* A run that had already emitted a segment ended on the session limit.
C15_Witness ==
    /\ status = "error"
    /\ ~SessionReturned
    /\ Len(emitted) >= 2
    /\ emitted[Len(emitted) - 1].exit_code = SystemSplit
    /\ emitted[Len(emitted)].exit_code = SessionLimit

\* The last n segments handed to the callback.
LastEmitted(n) == SubSeq(emitted, Len(emitted) - n + 1, Len(emitted))

\* The number of segments of the returned session that the guest's run
\* produced: all of them, or those up to the Fault segment.
GuestSegments ==
    IF status = "fault"
    THEN CHOOSE i \in 1..Len(session.segments) :
             session.segments[i].exit_code = Fault
    ELSE Len(session.segments)

\* C20 as claimed: every segment of a returned Session was handed to the
\* callback, once and in index order: the session's segments are the last
\* segments the callback received.
C20_CallbackOncePerSessionSegment ==
    SessionReturned =>
        /\ Len(session.segments) <= Len(emitted)
        /\ session.segments = LastEmitted(Len(session.segments))

\* C20 amended: the segments the guest's run produced are, in order and with
\* indices 0, 1, 2, ..., the last segments the callback received; while the
\* run goes on, the segments pushed so far are the last ones the callback
\* received, so the callback has returned before the next segment is
\* stepped.  The fault checker's segments that run_with_callback appends to
\* the session behind a Fault were never handed to the callback.
C20_CallbackOncePerGuestSegment ==
    /\ status = "running" =>
          /\ Len(exec.segments) <= Len(emitted)
          /\ exec.segments = LastEmitted(Len(exec.segments))
    /\ SessionReturned =>
          /\ GuestSegments <= Len(emitted)
          /\ SubSeq(session.segments, 1, GuestSegments) = LastEmitted(GuestSegments)
          /\ \A i \in 1..GuestSegments : session.segments[i].index = i - 1
          /\ \A i \in (GuestSegments + 1)..Len(session.segments) :
                \A k \in 1..Len(emitted) : emitted[k] # session.segments[i]

\* A resumed run returned a session of two segments; the callback had
\* received a segment of the run before as well.
C20_Witness ==
    /\ status = "ok"
    /\ runs = 2
    /\ Len(session.segments) = 2
    /\ Len(emitted) = 3
    /\ emitted[1].exit_code = Paused(0)
    /\ session.segments = LastEmitted(2)

\* C21: in a Session that run_with_callback returns Ok every segment but the
\* last ends in SystemSplit and the last ends in the session's exit code, a
\* Halted or a Paused; a guest run that ends in Fault comes back as
\* ExecutorError::Fault with the session, whose guest segments end in
\* SystemSplit but for the Fault segment; no returned session holds a
\* SessionLimit segment, and a run that stopped on one is an error.
C21_SessionTerminalExitCodes ==
    /\ (status = "ok" /\ api = "run_with_callback") =>
          /\ \A i \in 1..(Len(session.segments) - 1) :
                session.segments[i].exit_code = SystemSplit
          /\ session.segments[Len(session.segments)].exit_code = session.exit_code
          /\ session.exit_code.kind \in {"Halted", "Paused"}
    /\ status = "fault" =>
          /\ api = "run_with_callback"
          /\ session.exit_code = Fault
          /\ session.segments[GuestSegments].exit_code = Fault
          /\ \A i \in 1..(GuestSegments - 1) :
                session.segments[i].exit_code = SystemSplit
    /\ SessionReturned =>
          \A i \in 1..Len(session.segments) :
              session.segments[i].exit_code # SessionLimit
    /\ (emitted # <<>> /\ emitted[Len(emitted)].exit_code = SessionLimit) =>
          status \in {"error", "running"}

\* run_with_callback returned Ok a session of two segments that ends in a
\* pause.
C21_Witness ==
    /\ status = "ok"
    /\ api = "run_with_callback"
    /\ Len(session.segments) = 2
    /\ session.segments[1].exit_code = SystemSplit
    /\ session.exit_code = Paused(0)

\* An instruction that traps: its fetch finds no mapped word, the word does
\* not decode, or the instruction executor fails on it.
Traps(insn) == insn = NoInsn \/ insn.op \in {"illegal", "trap"}

\* C22: in a fault-proof build a trap raised while stepping an instruction,
\* at its fetch, at its decoding or in its execution, leaves pc, cycles,
\* memory and syscalls as they were and ends the guest run with Fault; in a
\* build without fault proofs it is an error.
C22_EveryTrapFaults ==
    status = "running" =>
        \A insn \in Fetched : \A host \in HandlerReturns(insn) :
            Traps(insn) =>
                LET r == step(exec, insn, fault_proof, host)
                IN IF fault_proof
                   THEN /\ r.res = "Ok"
                        /\ r.exit_code = Some(Fault)
                        /\ r.exec = [exec EXCEPT !.split_insn = Some(exec.insn_counter)]
                   ELSE r.res = "Err"

HaltTypes == {halt_TERMINATE, halt_PAUSE, 2, 255}

UserExits == {0, 1, 255}

UpperHalves == {0, 1}

\* The executor e with as many body cycles as leave room for exactly `room`
\* more cycles once insn has touched its pages.
WithRoomFor(e, insn, room) ==
    LET m == MonitorAccess(e.monitor, insn)
    IN [e EXCEPT !.body_cycles =
            e.segment_limit - room
                - (const_cycles + m.page_read_cycles + m.page_write_cycles)]

\* C24: the halt ecall reads the halt type from bits 0..7 and the user exit
\* code from bits 8..15 of a0.  TERMINATE gives Halted(user_exit) and leaves
\* pc at the halt instruction, PAUSE gives Paused(user_exit) and moves pc to
\* the next instruction, another halt type is an error; no extra cycle is
\* charged.  A halt that fits the segment ends the run with its exit code at
\* the cost of one cycle; one that does not fit ends the segment with
\* SystemSplit, and is the first instruction of the next segment, where it
\* takes effect unless the session limit is reached first.  The decoding of
\* a0 is checked at the head of every segment.
C24_HaltEcall ==
    status = "running" =>
        /\ exec.insn_counter = 0 =>
            \A t \in HaltTypes : \A u \in UserExits : \A h \in UpperHalves :
              LET insn == Insn("halt", HaltWord(t, u) + 65536 * h)
              IN IF t = halt_TERMINATE
                 THEN EcallHalt(exec, insn)
                          = OpCodeResult(exec.pc, Some(Halted(u)), 0)
                 ELSE IF t = halt_PAUSE
                 THEN EcallHalt(exec, insn)
                          = OpCodeResult(exec.pc + 1, Some(Paused(u)), 0)
                 ELSE EcallHalt(exec, insn).err
        /\ ~SessionLimitReached(exec) =>
              \A t \in HaltTypes :
                LET insn == Insn("halt", HaltWord(t, 1))
                    expected == EcallHalt(exec, insn)
                    fits == step(WithRoomFor(exec, insn, 1), insn, fault_proof, 1)
                    late == step(WithRoomFor(exec, insn, 0), insn, fault_proof, 1)
                    next == RunLoop(late.exec, SystemSplit, journal, api,
                                    CheckerSession(1, Halted(0)), emitted).exec
                    again == step(next, insn, fault_proof, 1)
                IN IF expected.err
                   THEN step(exec, insn, fault_proof, 1).res = "Err"
                   ELSE /\ fits.res = "Ok"
                        /\ fits.exit_code = expected.exit_code
                        /\ fits.exec.pc = expected.pc
                        /\ fits.exec.body_cycles =
                               WithRoomFor(exec, insn, 1).body_cycles + 1
                        /\ total_cycles(fits.exec) = exec.segment_limit
                        /\ late.res = "Ok"
                        /\ late.exit_code = Some(SystemSplit)
                        /\ late.exec.pc = exec.pc
                        /\ next.pc = exec.pc /\ next.insn_counter = 0
                        /\ ~SessionLimitReached(next) =>
                              /\ again.exit_code = expected.exit_code
                              /\ again.exec.pc = expected.pc

\* A run that split once returned a session halted with user exit code 1,
\* and pc is still at the halt instruction.
C24_Witness ==
    /\ status = "ok"
    /\ Len(session.segments) = 2
    /\ session.exit_code = Halted(1)
    /\ exec.pc <= Len(prog)
    /\ prog[exec.pc] = Insn("halt", HaltWord(halt_TERMINATE, 1))

\* The segment the callback received just before those of the returned
\* session: the last segment of the session returned before.
LastOfSessionBefore == emitted[Len(emitted) - GuestSegments]

\* A session was returned by a call that resumed a paused run.
ResumedAfterPause ==
    /\ SessionReturned
    /\ Len(emitted) > GuestSegments
    /\ LastOfSessionBefore.exit_code.kind = "Paused"

\* C25: a run called on an executor that halted fails and changes nothing of
\* the executor, the program position or the callback's log; a run called
\* after a pause starts at the instruction behind the pause, and the first
\* segment of its session has the pre image whose id is the post image id of
\* the last segment of the paused session.
C25_HaltedEndsPausedResumes ==
    /\ [](ResumedAfterPause =>
            /\ ImageId(session.segments[1].pre_image)
                   = LastOfSessionBefore.post_image_id
            /\ session.segments[1].index = 0
            /\ session.segments[1].pre_image.pc > 1
            /\ prog[session.segments[1].pre_image.pc - 1].op = "halt"
            /\ prog[session.segments[1].pre_image.pc - 1].arg % 256 = halt_PAUSE)
    /\ [][(/\ status = "ok"
            /\ session.exit_code.kind = "Halted"
            /\ runs' # runs) =>
               /\ status' = "error"
               /\ exec' = exec
               /\ prog' = prog
               /\ emitted' = emitted
               /\ handler_log' = handler_log]_vars

\* A run paused at its first instruction; the next run resumed behind it and
\* halted.
C25_Witness ==
    /\ ResumedAfterPause
    /\ runs = 2
    /\ Len(emitted) = 2
    /\ session.exit_code = Halted(0)
    /\ session.segments[1].pre_image.pc = 2
    /\ ImageId(session.segments[1].pre_image) = emitted[1].post_image_id


(***************************************************************************)
(* Properties of the bigint ecall, checked under SpecB.                    *)
(***************************************************************************)

\* C26: with op = 0 and n # 0 the words written are those of x*y mod n, taken
\* from the full product, and so below n; with n = 0 they are those of x*y
\* when the product fits the operand width, and the call is a hard failure
\* that writes nothing otherwise; op # 0 is rejected; a call that succeeds
\* costs 9 extra cycles and moves pc one word on.
C26_BigIntModMul ==
    (bigint # <<>> /\ bigint.done) =>
        LET x == FromLeWords(bigint.x)
            y == FromLeWords(bigint.y)
            n == FromLeWords(bigint.n)
            out == bigint.out
            wrote(v) ==
                /\ out.res = "Ok"
                /\ out.z = Some(ToLeWords(v))
                /\ FromLeWords(out.z[1]) = v
                /\ out.op_result = OpCodeResult(bigint.pc + 1, None, 9)
        IN IF bigint.op # 0 THEN out.res = "Err" /\ out.z = None
           ELSE IF n # 0 THEN wrote((x * y) % n) /\ FromLeWords(out.z[1]) < n
           ELSE IF x * y < BigIntRange THEN wrote(x * y)
           ELSE out.res = "Panic" /\ out.z = None

\* The product of the top bit and two does not fit: the call failed hard.
C26_Witness ==
    /\ bigint # <<>>
    /\ bigint.done
    /\ bigint.op = 0
    /\ FromLeWords(bigint.n) = 0
    /\ FromLeWords(bigint.x) = BigIntRange \div 2
    /\ FromLeWords(bigint.y) = 2
    /\ bigint.out.res = "Panic"


(***************************************************************************)
(* The cost of a software ecall, checked under SpecE.                      *)
(***************************************************************************)

\* The numbers of words a software ecall asks the host for.
SyscallRequests == 0..9 \cup {SyscallWords}

\* C27: a software ecall that requests w words is charged w + 2 extra
\* cycles, for every w.
C27_SyscallCostIsWordsPlusTwo ==
    status \in {"ready", "running", "ok", "fault", "error"} =>
        \A w \in SyscallRequests :
            EcallSoftware(exec, Insn("syscall", w)).extra_cycles = w + 2


(***************************************************************************)
(* The busy loop scenario, checked under SpecL.                            *)
(***************************************************************************)

\* The segments of the returned session but the last are SystemSplit, the
\* last is Halted(0), and the guest wrote no journal.
SplitsThenHalts ==
    /\ \A i \in 1..(Len(session.segments) - 1) :
          session.segments[i].exit_code = SystemSplit
    /\ session.segments[Len(session.segments)].exit_code = Halted(0)
    /\ session.exit_code = Halted(0)
    /\ session.journal = <<>>
    /\ \A i \in 1..Len(session.segments) : session.segments[i].index = i - 1

HonestReceiptOf(s) ==
    LET n == Len(s.segments)
        commits == ExpectsOutput(s.exit_code) /\ s.journal # <<>>
    IN [segments |->
            [i \in 1..n |->
                [seal |-> "Ok", hashfn |-> TRUE,
                 pre |-> ImageId(s.segments[i].pre_image),
                 post |-> s.segments[i].post_image_id,
                 exit_code |-> s.segments[i].exit_code,
                 output |-> IF i = n /\ commits
                            THEN OutputDigest(HashBytes(s.journal), NoAssumptions)
                            ELSE ZERO]],
        assumptions |-> <<>>,
        journal_digest |-> IF commits THEN HashBytes(s.journal) ELSE None,
        journal |-> s.journal]

\* The guest's first instruction was a halt with TERMINATE and user exit 0,
\* and run was called once.
HaltedAtOnce ==
    /\ runs = 1
    /\ prog = <<Insn("halt", HaltWord(halt_TERMINATE, 0))>>

\* C29: the run of a guest that halts at once (TERMINATE, user exit 0)
\* returns a session of exactly one segment, with index 0 and exit code
\* Halted(0), and an empty journal; the receipt of an honest proof of that
\* segment passes verify for the image id of the guest.
C29_ImmediateHalt ==
    HaltedAtOnce =>
        /\ status = "ok"
        /\ Len(session.segments) = 1
        /\ session.segments[1].index = 0
        /\ session.segments[1].exit_code = Halted(0)
        /\ session.exit_code = Halted(0)
        /\ session.journal = <<>>
        /\ emitted = session.segments
        /\ ReceiptVerify(HonestReceiptOf(session), FALSE, ImageId(GuestImage)) = "Ok"

\* The halt was executed in a segment that began at the guest's image.
C29_Witness ==
    /\ HaltedAtOnce
    /\ status = "ok"
    /\ emitted[1].pre_image = GuestImage
    /\ emitted[1].cycles = 1


(***************************************************************************)
(* The order of the checks of verify_integrity, checked under SpecV.       *)
(***************************************************************************)

\* The verification of every segment receipt, made ahead of the chaining:
\* the error of the first receipt that fails, or "Ok".
OracleChecks(segments) ==
    LET bad == {i \in 1..Len(segments) : SegmentVerifyIntegrity(segments[i]) # "Ok"}
    IN IF bad = {} THEN "Ok"
       ELSE SegmentVerifyIntegrity(
                segments[CHOOSE i \in bad : \A k \in bad : i <= k])

\* The chaining checks of the non-final segment receipts alone.
RECURSIVE ChainChecks(_, _, _)
ChainChecks(receipts, i, prev) ==
    IF i > Len(receipts) THEN [res |-> "Ok", prev |-> prev]
    ELSE LET s == receipts[i] IN
        IF prev # None /\ prev # <<s.pre>>
            THEN [res |-> "ImageVerificationError", prev |-> prev]
        ELSE IF s.exit_code # SystemSplit
            THEN [res |-> "UnexpectedExitCode", prev |-> prev]
        ELSE IF ~OutputIsNone(s.output)
            THEN [res |-> "ReceiptFormatError", prev |-> prev]
        ELSE ChainChecks(receipts, i + 1, <<s.post>>)

\* verify_integrity of a composite receipt with the verification of all the
\* segment receipts made first and the chaining checks applied afterwards.
VerifyIntegrityOracleFirst(r, dev) ==
    IF Len(r.segments) = 0 THEN "ReceiptFormatError"
    ELSE LET n == Len(r.segments)
             final_receipt == r.segments[n]
             chain == ChainChecks(SubSeq(r.segments, 1, n - 1), 1, None)
         IN
        IF OracleChecks(r.segments) # "Ok" THEN OracleChecks(r.segments)
        ELSE IF chain.res # "Ok" THEN chain.res
        ELSE IF chain.prev # None /\ chain.prev # <<final_receipt.pre>>
            THEN "ImageVerificationError"
        ELSE IF AssumptionsLoop(r.assumptions, 1, dev) # "Ok"
            THEN AssumptionsLoop(r.assumptions, 1, dev)
        ELSE VerifyOutputConsistency(r, final_receipt.exit_code, final_receipt.output)

\* The receipt under verification with the seal of segment receipt i, when
\* there is one, found to be v.
WithSeal(r, i, v) ==
    IF i \in 1..Len(r.segments) THEN [r EXCEPT !.segments[i].seal = v] ELSE r

\* C30: verify_integrity of a composite receipt accepts the same receipts
\* whether each segment receipt is verified just before its chaining checks,
\* as the code does, or all segment receipts are verified first and the
\* chaining checks applied afterwards.  It holds of the receipt under
\* verification whatever the proof system says of one more of its seals.
C30_OracleOrderIrrelevant ==
    \A dev \in DevModes(receipt), i \in 1..MaxSegments, v \in SealResults :
        LET r == WithSeal(receipt, i, v)
        IN (CompositeVerifyIntegrity(r, dev) = "Ok")
               <=> (VerifyIntegrityOracleFirst(r, dev) = "Ok")

\* verify_integrity rejected a receipt of three segments whose first exit
\* code was altered; were the second seal invalid as well, the two orders
\* would reject it for different reasons.
C30_Witness ==
    /\ altered = <<<<"exit_code", 1>>>>
    /\ Len(receipt.segments) = 3
    /\ verdict.op = "composite_verify_integrity"
    /\ verdict.res = "UnexpectedExitCode"
    /\ VerifyIntegrityOracleFirst(receipt, verdict.dev) = "UnexpectedExitCode"
    /\ CompositeVerifyIntegrity(WithSeal(receipt, 2, "InvalidProof"), verdict.dev)
           = "UnexpectedExitCode"
    /\ VerifyIntegrityOracleFirst(WithSeal(receipt, 2, "InvalidProof"), verdict.dev)
           = "InvalidProof"


(***************************************************************************)
(* The Fake receipt, checked under SpecV.                                  *)
(***************************************************************************)

\* A Receipt whose inner receipt is Fake: it carries metadata and no seal.
\* The seal field is what a proof system would say of it, were it asked.
FakeInner(metadata, v) == [kind |-> "Fake", seal |-> v, meta |-> metadata]

\* Receipt::verify_integrity_with_context for an inner receipt that is not a
\* composite (get_metadata returns the stored metadata).
ReceiptVerifyIntegrityOfInner(inner, j, dev) ==
    IF InnerVerifyIntegrity(inner, dev) # "Ok" THEN InnerVerifyIntegrity(inner, dev)
    ELSE LET metadata == InnerGetMetadata(inner)
             expected_output ==
                 IF ExpectsOutput(metadata.exit_code)
                    THEN OutputDigest(HashBytes(j), NoAssumptions)
                    ELSE ZERO
         IN IF metadata.output # expected_output
                /\ ~(OutputIsNone(metadata.output) /\ j = <<>>)
            THEN "JournalDigestMismatch"
            ELSE "Ok"

\* Receipt::verify_with_context for an inner receipt that is not a composite.
ReceiptVerifyOfInner(inner, j, dev, image_id) ==
    IF InnerVerifyIntegrity(inner, dev) # "Ok" THEN InnerVerifyIntegrity(inner, dev)
    ELSE LET metadata == InnerGetMetadata(inner)
             expected_output == OutputDigest(HashBytes(j), NoAssumptions)
         IN IF metadata.pre # image_id THEN "ImageVerificationError"
            ELSE IF metadata.exit_code \notin {Halted(0), Paused(0)}
                THEN "UnexpectedExitCode"
            ELSE IF metadata.output # expected_output
                    /\ ~(OutputIsNone(metadata.output) /\ j = <<>>)
                THEN "JournalDigestMismatch"
            ELSE "Ok"

\* The metadata a Fake receipt may claim: those of the receipt under
\* verification, whatever its exit code.
ClaimedMetadata ==
    {[pre |-> FirstImage, post |-> FirstImage + 1, exit_code |-> e, output |-> o] :
        e \in {Halted(0), Fault},
        o \in {ZERO, OutputDigest(HashBytes(receipt.journal), NoAssumptions)}}

\* The receipt under verification with its Fake assumptions proven instead.
WithProvenAssumptions(r) ==
    [r EXCEPT !.assumptions =
        [i \in 1..Len(r.assumptions) |->
            IF r.assumptions[i].kind = "Fake"
            THEN [r.assumptions[i] EXCEPT !.kind = "Groth16", !.seal = "Ok"]
            ELSE r.assumptions[i]]]

\* C31: a Fake receipt fails verify_integrity and verify with InvalidProof
\* unless dev mode is enabled, whatever a proof system would say of it; with
\* dev mode enabled its integrity check passes, and the receipt is verified
\* as if the Fake receipt were proven.  A composite receipt with a Fake
\* assumption is not accepted without dev mode, the error being InvalidProof
\* when its segment receipts pass, and with dev mode it is verified as the
\* same receipt with the assumption proven.
C31_FakeNeedsDevMode ==
    /\ \A metadata \in ClaimedMetadata, v \in SealResults :
          LET f == FakeInner(metadata, v)
              j == receipt.journal
          IN /\ InnerVerifyIntegrity(f, FALSE) = "InvalidProof"
             /\ InnerVerifyIntegrity(f, TRUE) = "Ok"
             /\ ReceiptVerifyIntegrityOfInner(f, j, FALSE) = "InvalidProof"
             /\ ReceiptVerifyOfInner(f, j, FALSE, FirstImage) = "InvalidProof"
             /\ ReceiptVerifyIntegrityOfInner(f, j, TRUE) =
                    ReceiptVerifyIntegrityOfInner(
                        [f EXCEPT !.kind = "Groth16", !.seal = "Ok"], j, FALSE)
    /\ HasFake(receipt) =>
          /\ CompositeVerifyIntegrity(receipt, FALSE) # "Ok"
          /\ AllSealsAccepted /\ CompositeVerifyIntegrity(WithProvenAssumptions(receipt), FALSE) = "Ok"
                => CompositeVerifyIntegrity(receipt, FALSE) = "InvalidProof"
          /\ CompositeVerifyIntegrity(receipt, TRUE) =
                 CompositeVerifyIntegrity(WithProvenAssumptions(receipt), FALSE)
          /\ verdict.res = "Ok" => verdict.dev
          /\ (verdict.op # "none" /\ ~verdict.dev /\ AllSealsAccepted
                 /\ CompositeVerifyIntegrity(WithProvenAssumptions(receipt), FALSE) = "Ok")
                => verdict.res = "InvalidProof"

\* verify accepted, in dev mode, a receipt whose assumption is Fake; without
\* dev mode the same receipt is rejected with InvalidProof.
C31_Witness ==
    /\ altered = <<<<"assumptions", 0>>>>
    /\ receipt.assumptions = <<FakeAssumption>>
    /\ verdict.op = "verify_integrity"
    /\ verdict.dev
    /\ verdict.res = "Ok"
    /\ ReceiptVerifyIntegrity(receipt, FALSE) = "InvalidProof"


(***************************************************************************)
(* The construction of the executor, checked under SpecE.                  *)
(***************************************************************************)

\* The values of segment_limit_po2 an ExecutorEnv may carry.
Po2Choices == {None} \cup {Some(p) : p \in 0..(MAX_CYCLES_PO2 + 2)}

\* The segment_limit_po2 the constructor enforces: 20 when none is configured.
EffectivePo2(po2) == IF po2 = None THEN 20 ELSE po2[1]

\* C32: the construction of the executor fails, before any instruction is
\* executed, unless segment_limit_po2 (20 when not configured) lies between
\* MIN_CYCLES_PO2 and MAX_CYCLES_PO2; when it succeeds the segment limit is
\* 2^segment_limit_po2.
C32_ConstructorChecksPo2 ==
    /\ runs = 0 => \A po2 \in Po2Choices, limit \in {None, Some(SmallSessionLimit)} :
          LET made == WithObjCtx([segment_limit_po2 |-> po2, session_limit |-> limit],
                                 GuestImage)
              p == EffectivePo2(po2)
          IN IF p >= MIN_CYCLES_PO2 /\ p <= MAX_CYCLES_PO2
             THEN /\ made.res = "Ok"
                  /\ made.exec.segment_limit = 2 ^ p
                  /\ made.exec.insn_counter = 0
                  /\ made.exec.body_cycles = 0
                  /\ made.exec.segments = <<>>
             ELSE made.res = "Err" /\ made.exec = NoExecutor
    /\ status = "invalid" =>
          /\ exec = NoExecutor
          /\ runs = 0
          /\ prog = <<>>
          /\ emitted = <<>>
          /\ handler_log = <<>>
    /\ status \notin {"none", "invalid"} =>
          LET p == EffectivePo2(exec.env.segment_limit_po2)
          IN /\ p >= MIN_CYCLES_PO2
             /\ p <= MAX_CYCLES_PO2
             /\ exec.segment_limit = 2 ^ p

\* An executor was constructed with no segment_limit_po2 configured and has
\* run a guest within a segment limit of 2^20 cycles.
C32_Witness ==
    /\ status = "ok"
    /\ exec.env.segment_limit_po2 = None
    /\ exec.segment_limit = 1048576
    /\ Len(emitted) >= 1


(***************************************************************************)
(* The progress of the splits, checked under SpecS.                        *)
(***************************************************************************)

\* C33: every segment emitted with exit code SystemSplit committed at least
\* one instruction: its split index is at least 1 and no two segments in a
\* row begin at the same pc.
C33_SplitCommitsAnInstruction ==
    /\ \A i \in 1..Len(emitted) :
          emitted[i].exit_code = SystemSplit =>
              /\ emitted[i].split_insn # None
              /\ emitted[i].split_insn[1] >= 1
              /\ emitted[i].cycles >= 1
    /\ \A i \in 1..(Len(emitted) - 1) :
          emitted[i].pre_image.pc # emitted[i + 1].pre_image.pc


(***************************************************************************)
(* The segment of the session limit, checked under SpecE.                  *)
(***************************************************************************)

\* C34: no segment with exit code SessionLimit is handed to the callback or
\* stored in the engine's segment list: every segment a callback receives
\* has exit code SystemSplit, Paused, Halted or Fault.
C34_NoSessionLimitSegment ==
    status \notin {"none", "invalid"} =>
        /\ \A i \in 1..Len(emitted) :
              emitted[i].exit_code.kind \in {"SystemSplit", "Paused", "Halted", "Fault"}
        /\ \A i \in 1..Len(exec.segments) :
              exec.segments[i].exit_code.kind
                  \in {"SystemSplit", "Paused", "Halted", "Fault"}

\* C34, amended: when the session limit is reached the run loop builds a
\* segment with exit code SessionLimit, hands it to the callback and stores
\* it in the engine's segment list, and then the run fails: that segment is
\* the last one the callback receives and the last of the engine's list, the
\* run has ended with an error and no session is returned.  Every other
\* segment a callback receives has exit code SystemSplit, Paused, Halted or
\* Fault.
C34_SessionLimitSegmentIsLast ==
    status \notin {"none", "invalid"} =>
        /\ \A i \in 1..Len(emitted) :
              IF emitted[i].exit_code = SessionLimit
              THEN /\ i = Len(emitted)
                   /\ status = "error"
                   /\ ~SessionReturned
                   /\ exec.segments # <<>>
                   /\ exec.segments[Len(exec.segments)] = emitted[i]
              ELSE emitted[i].exit_code.kind
                       \in {"SystemSplit", "Paused", "Halted", "Fault"}
        /\ \A i \in 1..Len(exec.segments) :
              exec.segments[i].exit_code = SessionLimit =>
                  /\ i = Len(exec.segments)
                  /\ emitted[Len(emitted)] = exec.segments[i]

\* The first segment of a run ended on the session limit: the callback and
\* the engine's segment list hold it.
C34_Witness ==
    /\ status = "error"
    /\ Len(emitted) = 1
    /\ emitted[1].exit_code = SessionLimit
    /\ emitted[1].index = 0
    /\ exec.segments = emitted


(***************************************************************************)
(* The syscall records of the segments, checked under SpecE.               *)
(***************************************************************************)

\* The pc behind the last instruction a segment committed.
PostPc(segment) == segment.post_image_id[3]

RECURSIVE RecordsBetween(_, _, _)
\* The records of the handler invocations at the software ecalls of the
\* guest from pc from up to, and not including, pc to, in program order; k
\* is the next entry of the handler's log to look at.
RecordsBetween(from, to, k) ==
    IF k > Len(handler_log) THEN <<>>
    ELSE IF handler_log[k][1] >= from /\ handler_log[k][1] < to
         THEN <<SyscallRecord(handler_log[k][2], <<handler_log[k][2], 0>>)>>
                  \o RecordsBetween(from, to, k + 1)
         ELSE RecordsBetween(from, to, k + 1)

\* The software ecalls of the guest from pc from up to, and not including,
\* pc to.
SyscallsBetween(from, to) ==
    {p \in from..(to - 1) : p <= Len(prog) /\ prog[p].op = "syscall"}

\* C35: each committed software ecall contributes exactly one SyscallRecord,
\* placed in the syscalls list of the segment in which the instruction is
\* committed, in program order; the list of the executor is drained when a
\* segment is built, so that no record is in two segments and none is lost.
C35_SyscallRecordsPerSegment ==
    status \in {"ready", "running", "ok", "fault", "error"} =>
        /\ \A i \in 1..Len(emitted) :
              LET from == emitted[i].pre_image.pc
                  to == PostPc(emitted[i])
              IN /\ Len(emitted[i].syscalls) = Cardinality(SyscallsBetween(from, to))
                 /\ emitted[i].syscalls = RecordsBetween(from, to, 1)
        /\ LET from == IF emitted = <<>> THEN 1 ELSE PostPc(emitted[Len(emitted)])
               to == exec.pc
           IN /\ Len(exec.syscalls) = Cardinality(SyscallsBetween(from, to))
              /\ exec.syscalls = RecordsBetween(from, to, 1)
        /\ Len(SyscallsOf(emitted)) + Len(exec.syscalls)
               = Cardinality(SyscallsBetween(1, exec.pc))

\* Two software ecalls were committed in the first and in the third segment
\* of a run, and the segment between them holds no record.
C35_Witness ==
    /\ status = "ok"
    /\ Len(emitted) = 3
    /\ emitted[1].syscalls = <<SyscallRecord(1, <<1, 0>>)>>
    /\ emitted[2].syscalls = <<>>
    /\ emitted[3].syscalls = <<SyscallRecord(2, <<2, 0>>)>>


(***************************************************************************)
(* The exit code of the final segment receipt, checked under SpecV.        *)
(***************************************************************************)

\* The exit codes that end a session.
SessionTerminal(exit_code) == exit_code.kind \in {"Halted", "Paused", "Fault"}

\* C36: CompositeReceipt::verify_integrity_with_context accepts no receipt
\* whose final segment has exit code SystemSplit: the last segment of an
\* accepted chain carries a session-terminal exit code (Halted, Paused or
\* Fault).
C36_FinalSegmentIsTerminal ==
    (verdict.op = "composite_verify_integrity" /\ verdict.res = "Ok") =>
        SessionTerminal(receipt.segments[Len(receipt.segments)].exit_code)


(***************************************************************************)
(* The order of the checks of verify_integrity, checked under SpecV.       *)
(***************************************************************************)

\* The checks verify_integrity makes of segment receipt i, in the order of
\* the source: the proof system, the chaining to the receipt before it and,
\* for a non-final receipt, the exit code and the output.  The result is the
\* first error, or "Ok".
SegmentCheck(segments, i) ==
    LET s == segments[i] IN
    IF SegmentVerifyIntegrity(s) # "Ok" THEN SegmentVerifyIntegrity(s)
    ELSE IF i > 1 /\ segments[i - 1].post # s.pre THEN "ImageVerificationError"
    ELSE IF i < Len(segments) /\ s.exit_code # SystemSplit THEN "UnexpectedExitCode"
    ELSE IF i < Len(segments) /\ ~OutputIsNone(s.output) THEN "ReceiptFormatError"
    ELSE "Ok"

\* The values a second alteration gives to a field of a segment receipt.
SegmentAlterations ==
    {<<"seal", "InvalidProof">>, <<"hashfn", FALSE>>, <<"pre", BadImage>>,
     <<"post", BadImage>>, <<"exit_code", Fault>>, <<"exit_code", SystemSplit>>,
     <<"output", OutputDigest(HashBytes(<<1>>), NoAssumptions)>>, <<"output", ZERO>>}

\* The receipt under verification, and the receipts that differ from it in
\* one more field of a segment receipt, in the assumptions or in the journal
\* digest.
Variants(r) ==
    {r}
    \cup {[r EXCEPT !.segments[j][a[1]] = a[2]] :
            j \in 1..Len(r.segments), a \in SegmentAlterations}
    \cup {[r EXCEPT !.assumptions = <<BrokenAssumption>>],
          [r EXCEPT !.journal_digest = HashBytes(<<2>>)]}

\* C37: verify_integrity reports the first failing check in segment order:
\* when segment receipt i is the first that fails one of its checks, the
\* result is the error of segment i, whatever fails in later segments, in
\* the assumptions or in the output consistency; within a segment the order
\* is the proof system, the chaining (ImageVerificationError), the exit code
\* (UnexpectedExitCode) and the output (ReceiptFormatError).
C37_FirstFailingCheck ==
    \A r \in Variants(receipt) : \A dev \in DevModes(r) :
        LET bad == {i \in 1..Len(r.segments) : SegmentCheck(r.segments, i) # "Ok"}
        IN bad # {} =>
              CompositeVerifyIntegrity(r, dev)
                  = SegmentCheck(r.segments, CHOOSE i \in bad : \A k \in bad : i <= k)

\* verify_integrity answered ImageVerificationError for a receipt of three
\* segments whose second pre digest was altered; it answers the same when
\* the exit code of the second segment, the seal of the third, the
\* assumptions or the journal digest are wrong as well.
C37_Witness ==
    /\ altered = <<<<"pre", 2>>>>
    /\ Len(receipt.segments) = 3
    /\ verdict.op = "composite_verify_integrity"
    /\ verdict.res = "ImageVerificationError"
    /\ CompositeVerifyIntegrity(
           [receipt EXCEPT !.segments[2].exit_code = Fault], verdict.dev)
         = "ImageVerificationError"
    /\ CompositeVerifyIntegrity(
           [receipt EXCEPT !.segments[3].seal = "InvalidProof"], verdict.dev)
         = "ImageVerificationError"
    /\ CompositeVerifyIntegrity(
           [receipt EXCEPT !.assumptions = <<BrokenAssumption>>], verdict.dev)
         = "ImageVerificationError"


(***************************************************************************)
(* The executor with a trace observer installed (env.trace), explored      *)
(* under SpecT: the guest is built as in SpecE, the segment limit is the   *)
(* smallest one and trace holds the events the observer received.          *)
(***************************************************************************)
TracedEnv == [segment_limit_po2 |-> Some(MIN_CYCLES_PO2), session_limit |-> None]

\* TraceEvent
InstructionStart(cycle, p, insn) ==
    [kind |-> "InstructionStart", cycle |-> cycle, pc |-> p, insn |-> insn]

RegisterSet(reg, value) == [kind |-> "RegisterSet", reg |-> reg, value |-> value]

MemorySet(addr, value) == [kind |-> "MemorySet", addr |-> addr, value |-> value]

\* monitor.trace_events at the end of an attempt of insn: the monitor notes
\* the stores to registers and memory the attempt made since the last commit
\* or undo.  A software ecall stores the record it applies.
PendingTraceEvents(insn, record) ==
    CASE insn.op = "plain" -> <<RegisterSet(1, 0)>>
      [] insn.op = "store" -> <<MemorySet(1, 0)>>
      [] insn.op = "sha" -> <<MemorySet(2, insn.arg)>>
      [] insn.op = "syscall" ->
            <<MemorySet(3, record.to_guest), RegisterSet(10, record.regs[1]),
              RegisterSet(11, record.regs[2])>>
      [] OTHER -> <<>>

\* The events of an attempt handed to the observer at every attempt, whether
\* advance() was reached or not.
Traced_EveryAttempt(e, r, insn, pending) ==
    <<InstructionStart(session_cycle(e), e.pc, insn)>> \o pending

\* The events step() hands to the observer: advance(), the only place that
\* increments insn_counter, hands over InstructionStart and then the events
\* of the monitor; the other paths of step() hand over nothing.  e is the
\* executor before the call and r the result of step().
Traced(e, r, insn, pending) ==
    IF r.exec.insn_counter = e.insn_counter + 1
    THEN <<InstructionStart(session_cycle(e), e.pc, insn)>> \o pending
    ELSE <<>>

InitT ==
    /\ IdleV
    /\ IdleB
    /\ IdleI
    /\ IdleA
    /\ fault_proof \in BOOLEAN
    /\ prog = <<>>
    /\ exec = WithObjCtx(TracedEnv, GuestImage).exec
    /\ status = "ready"
    /\ journal = <<>>
    /\ api = "none"
    /\ runs = 0
    /\ session = NoSession
    /\ emitted = <<>>
    /\ handler_log = <<>>
    /\ trace = <<>>

\* A call of run_guest_only_with_callback on the traced executor.
RunTraced == Run("run_guest_only_with_callback")

\* One iteration of the run loop of the traced executor.
StepTraced ==
    /\ status = "running"
    /\ \E insn \in Fetched : \E host \in HandlerReturns(insn) :
        LET r == step(exec, insn, fault_proof, host)
            out == RunLoop(r.exec, r.exit_code[1], journal, api,
                           CheckerSession(1, Halted(0)), emitted)
        IN /\ prog' = IF exec.pc > Len(prog) /\ insn # NoInsn
                      THEN Append(prog, insn) ELSE prog
           /\ handler_log' = IF InvokesHandler(exec, insn)
                             THEN Append(handler_log, <<exec.pc, host>>)
                             ELSE handler_log
           /\ trace' = trace \o Traced(exec, r, insn,
                           PendingTraceEvents(insn, SyscallToApply(exec, host)))
           /\ IF r.res = "Err"
              THEN /\ exec' = r.exec
                   /\ status' = "error"
                   /\ UNCHANGED <<session, emitted>>
              ELSE IF r.exit_code = None
              THEN /\ exec' = r.exec
                   /\ UNCHANGED <<status, session, emitted>>
              ELSE /\ exec' = out.exec
                   /\ status' = out.status
                   /\ session' = out.session
                   /\ emitted' = out.emitted
    /\ UNCHANGED <<fault_proof, journal, api, runs>>
    /\ UNCHANGED <<varsV, varsB, varsI, varsA>>

NextT ==
    \/ RunTraced
    \/ StepTraced

SpecT == InitT /\ [][NextT]_vars

\* The pc of the last instruction the executor committed: the one before pc,
\* or the halt at pc when the guest has halted, which leaves pc in place.
LastCommitted ==
    IF exec.exit_code # None /\ exec.exit_code[1].kind = "Halted"
    THEN exec.pc ELSE exec.pc - 1

\* The record the software ecall at pc p applied: what the handler returned
\* when it was invoked there.
RecordAt(p) ==
    LET k == CHOOSE k \in 1..Len(handler_log) : handler_log[k][1] = p
    IN SyscallRecord(handler_log[k][2], <<handler_log[k][2], 0>>)

RECURSIVE EventsOfCommitted(_, _)
\* One InstructionStart for each instruction from pc p to pc last, each
\* followed by the register and memory events of the instruction, without
\* the cycle numbers.
EventsOfCommitted(p, last) ==
    IF p > last THEN <<>>
    ELSE <<InstructionStart(0, p, prog[p])>>
            \o PendingTraceEvents(prog[p],
                   IF prog[p].op = "syscall" THEN RecordAt(p)
                   ELSE SyscallRecord(0, <<0, 0>>))
            \o EventsOfCommitted(p + 1, last)

\* The events of the observer without the cycle numbers.
Uncycled(events) ==
    [k \in 1..Len(events) |->
        IF events[k].kind = "InstructionStart"
        THEN [events[k] EXCEPT !.cycle = 0] ELSE events[k]]

InstructionStarts(events) ==
    SelectSeq(events, LAMBDA ev : ev.kind = "InstructionStart")

\* C38: with a trace observer installed, each committed instruction produces
\* exactly one InstructionStart event followed by its register and memory
\* events, in execution order and before the next instruction is stepped;
\* an attempt that is undone (SystemSplit or trap) produces no events, so an
\* instruction retried after a split is reported once.
C38_TraceOfCommitted ==
    status \in {"ready", "running", "ok", "fault", "error"} =>
        Uncycled(trace) = EventsOfCommitted(1, LastCommitted)

\* A run of three segments: the second software ecall was attempted and
\* undone at the end of the second segment and committed in the third, and
\* the observer saw one InstructionStart for each of the four instructions.
C38_Witness ==
    /\ status = "ok"
    /\ Len(emitted) = 3
    /\ Len(handler_log) = 2
    /\ emitted[3].syscalls # <<>>
    /\ Len(InstructionStarts(trace)) = 4
    /\ Len(trace) = 11


(***************************************************************************)
(* SliceIoSyscall (risc0/zkvm/src/prove/io.rs) and the guest's             *)
(* send_recv_slice (risc0/zkvm/src/guest/env.rs), explored under SpecI.    *)
(*                                                                         *)
(* slice_io holds size_of::<ToGuest>() in bytes, stored_result, the number *)
(* of invocations of the handler, the number of calls made and the outcome *)
(* of the last call.  A vector of elements is a sequence of small values,  *)
(* a buffer a sequence of bytes.  What the handler returns at its k-th     *)
(* invocation holds the value k in every element.                          *)
(***************************************************************************)
MaxElems == 2
MaxBufWords == 2
MaxCalls == 6

\* size_of of the element types explored: u8 and u32.
ElemSizes == {1, WORD_SIZE}

\* The little-endian bytes of an element of size bytes that holds v < 256.
ElemBytes(v, size) == <<v>> \o [i \in 1..(size - 1) |-> 0]

RECURSIVE CastSlice(_, _)
\* bytemuck::cast_slice of a vector of elements to bytes.
CastSlice(elems, size) ==
    IF elems = <<>> THEN <<>>
    ELSE ElemBytes(Head(elems), size) \o CastSlice(Tail(elems), size)

\* A guest buffer of nwords words, zeroed.
GuestBuffer(nwords) == [i \in 1..(WORD_SIZE * nwords) |-> 0]

\* handle_io at the k-th invocation, returning nelem elements.
HandleIo(k, nelem) == [i \in 1..nelem |-> k]

NoCall ==
    [res |-> "none", before |-> None, invoked |-> FALSE, ret |-> <<0, 0>>,
     buf_len |-> 0, to_guest |-> <<>>]

\* SliceIoSyscall::new
SliceIoSyscallNew(size) ==
    [elem_size |-> size, stored_result |-> None, handler_calls |-> 0,
     calls |-> 0, last |-> NoCall]

\* The asserts of the second call on the sizes of the stored bytes and of the
\* guest's buffer.
BufferFits(size, stored_bytes, to_guest_bytes) ==
    IF size < WORD_SIZE
    THEN /\ Len(stored_bytes) <= Len(to_guest_bytes)
         /\ Len(stored_bytes) + WORD_SIZE > Len(to_guest_bytes)
    ELSE Len(to_guest_bytes) >= Len(stored_bytes)

\* SliceIoSyscall::syscall that leaves the stored result in place at the
\* second call.
Syscall_KeepsStored(s, to_guest, nelem) ==
    LET made == [s EXCEPT !.calls = @ + 1] IN
    IF s.stored_result = None
    THEN IF Len(to_guest) # 0
         THEN [made EXCEPT !.last =
                  [res |-> "Panic", before |-> None, invoked |-> FALSE,
                   ret |-> <<0, 0>>, buf_len |-> Len(to_guest),
                   to_guest |-> to_guest]]
         ELSE LET result == HandleIo(s.handler_calls + 1, nelem)
              IN [made EXCEPT
                     !.handler_calls = @ + 1,
                     !.stored_result = Some(result),
                     !.last =
                        [res |-> "Ok", before |-> None, invoked |-> TRUE,
                         ret |-> <<Len(result), 0>>, buf_len |-> 0,
                         to_guest |-> to_guest]]
    ELSE LET stored_bytes == CastSlice(s.stored_result[1], s.elem_size)
         IN IF ~BufferFits(s.elem_size, stored_bytes, to_guest)
            THEN [made EXCEPT
                     !.stored_result = None,
                     !.last =
                        [res |-> "Panic", before |-> s.stored_result,
                         invoked |-> FALSE, ret |-> <<0, 0>>,
                         buf_len |-> Len(to_guest), to_guest |-> to_guest]]
            ELSE [made EXCEPT
                     !.last =
                        [res |-> "Ok", before |-> s.stored_result,
                         invoked |-> FALSE, ret |-> <<0, 0>>,
                         buf_len |-> Len(to_guest),
                         to_guest |-> stored_bytes
                            \o SubSeq(to_guest, Len(stored_bytes) + 1,
                                      Len(to_guest))]]

\* SliceIoSyscall::syscall on the guest buffer to_guest, with a handler that
\* returns nelem elements if it is invoked.  take() empties stored_result
\* before the match; a failed assert panics, and the panic leaves the object
\* as it was at that point.
Syscall(s, to_guest, nelem) ==
    LET made == [s EXCEPT !.calls = @ + 1] IN
    IF s.stored_result = None
    THEN IF Len(to_guest) # 0
         THEN [made EXCEPT !.last =
                  [res |-> "Panic", before |-> None, invoked |-> FALSE,
                   ret |-> <<0, 0>>, buf_len |-> Len(to_guest),
                   to_guest |-> to_guest]]
         ELSE LET result == HandleIo(s.handler_calls + 1, nelem)
              IN [made EXCEPT
                     !.handler_calls = @ + 1,
                     !.stored_result = Some(result),
                     !.last =
                        [res |-> "Ok", before |-> None, invoked |-> TRUE,
                         ret |-> <<Len(result), 0>>, buf_len |-> 0,
                         to_guest |-> to_guest]]
    ELSE LET stored_bytes == CastSlice(s.stored_result[1], s.elem_size)
         IN IF ~BufferFits(s.elem_size, stored_bytes, to_guest)
            THEN [made EXCEPT
                     !.stored_result = None,
                     !.last =
                        [res |-> "Panic", before |-> s.stored_result,
                         invoked |-> FALSE, ret |-> <<0, 0>>,
                         buf_len |-> Len(to_guest), to_guest |-> to_guest]]
            ELSE [made EXCEPT
                     !.stored_result = None,
                     !.last =
                        [res |-> "Ok", before |-> s.stored_result,
                         invoked |-> FALSE, ret |-> <<0, 0>>,
                         buf_len |-> Len(to_guest),
                         to_guest |-> stored_bytes
                            \o SubSeq(to_guest, Len(stored_bytes) + 1,
                                      Len(to_guest))]]

\* The guest's send_recv_slice::<T, U> with size_of::<T>() = tsize: a call
\* with an empty buffer, then a call with a buffer of nwords words, where
\* nwords is computed from the size of T.  A panic of the host ends it.
SendRecvSliceOn(s, tsize, nelem1, nelem2) ==
    LET first == Syscall(s, <<>>, nelem1)
        nelem == first.last.ret[1]
        nwords == AlignUp(tsize * nelem, WORD_SIZE) \div WORD_SIZE
    IN IF first.last.res = "Panic" THEN first
       ELSE Syscall(first, GuestBuffer(nwords), nelem2)

InitI ==
    /\ IdleV
    /\ IdleE
    /\ IdleB
    /\ IdleT
    /\ IdleA
    /\ \E size \in ElemSizes : slice_io = SliceIoSyscallNew(size)

\* One call of the handler by a guest that passes a buffer of its choice.
CallSyscall ==
    /\ slice_io.calls < MaxCalls
    /\ \E nwords \in 0..MaxBufWords, nelem \in 0..MaxElems :
        slice_io' = Syscall(slice_io, GuestBuffer(nwords), nelem)
    /\ UNCHANGED <<varsV, varsE, varsB, varsT, varsA>>

\* The guest calls send_recv_slice.
SendRecvSlice ==
    /\ slice_io.calls + 2 <= MaxCalls
    /\ \E tsize \in ElemSizes, nelem1 \in 0..MaxElems, nelem2 \in 0..MaxElems :
        slice_io' = SendRecvSliceOn(slice_io, tsize, nelem1, nelem2)
    /\ UNCHANGED <<varsV, varsE, varsB, varsT, varsA>>

NextI ==
    \/ CallSyscall
    \/ SendRecvSlice

SpecI == InitI /\ [][NextI]_vars

\* The last call was made with no stored result: the first call of a pair.
FirstOfPair == slice_io.last.res # "none" /\ slice_io.last.before = None

\* The last call was made with a stored result: the second call of a pair.
SecondOfPair == slice_io.last.res # "none" /\ slice_io.last.before # None

\* The stored result the last call found, as bytes.
StoredBefore == CastSlice(slice_io.last.before[1], slice_io.elem_size)

HeapCap == 4
MaxItems == 3
MaxAllocCalls == 4
UsizeBits == 4

UsizeRange == 2 ^ UsizeBits

\* usize addition: in a build with overflow checks an overflow panics, in a
\* build without them it wraps.
AddOverflows(a, b) == a + b >= UsizeRange

WrappingAdd(a, b) == (a + b) % UsizeRange

NoAllocCall ==
    [op |-> "none", res |-> "none", ptr |-> 0, nitems |-> 0, old_nitems |-> 0,
     len_before |-> 0, old_items |-> <<>>]

\* BumpPointerAlloc::new for a zone of HeapCap items.
BumpPointerAllocNew(overflow_checks) ==
    [overflow_checks |-> overflow_checks, len |-> 0, cap |-> HeapCap,
     regions |-> <<>>, mem |-> [i \in 0..(HeapCap - 1) |-> 0], calls |-> 0,
     last |-> NoAllocCall]

\* The items of the zone from ptr on, n of them, as far as the zone reaches.
ItemsAt(mem, ptr, n) ==
    [i \in 1..n |-> IF ptr + i - 1 \in DOMAIN mem THEN mem[ptr + i - 1] ELSE 0]

\* The zone with the items from ptr on replaced by items.
WriteItems(mem, ptr, items) ==
    [a \in DOMAIN mem |->
        IF a >= ptr /\ a < ptr + Len(items) THEN items[a - ptr + 1] ELSE mem[a]]

AllocPanic(h, op, nitems, old_nitems) ==
    [h EXCEPT !.calls = @ + 1,
              !.last = [op |-> op, res |-> "Panic", ptr |-> 0,
                        nitems |-> nitems, old_nitems |-> old_nitems,
                        len_before |-> h.len, old_items |-> <<>>]]

\* BumpPointerAlloc::alloc and alloc_unlocked.
Alloc(h, nitems) ==
    LET ptr == h.len
        new_len == WrappingAdd(h.len, nitems)
        tag == h.calls + 1
    IN IF h.overflow_checks /\ AddOverflows(h.len, nitems)
       THEN AllocPanic(h, "alloc", nitems, 0)
       ELSE IF new_len > h.cap
       THEN AllocPanic(h, "alloc", nitems, 0)
       ELSE [h EXCEPT
                !.calls = @ + 1,
                !.len = new_len,
                !.regions = Append(@, [ptr |-> ptr, nitems |-> nitems]),
                !.mem = WriteItems(@, ptr, [i \in 1..nitems |-> tag]),
                !.last = [op |-> "alloc", res |-> "Ok", ptr |-> ptr,
                          nitems |-> nitems, old_nitems |-> 0,
                          len_before |-> h.len, old_items |-> <<>>]]

\* BumpPointerAlloc::realloc of region k of the regions in use, which holds
\* old_nitems items at old_ptr.
Realloc(h, k, new_nitems) ==
    LET old_ptr == h.regions[k].ptr
        old_nitems == h.regions[k].nitems
        old_items == ItemsAt(h.mem, old_ptr, old_nitems)
        additional_items == new_nitems - old_nitems
        done(ptr, len, mem) ==
            [h EXCEPT
                !.calls = @ + 1,
                !.len = len,
                !.regions[k] = [ptr |-> ptr, nitems |-> new_nitems],
                !.mem = mem,
                !.last = [op |-> "realloc", res |-> "Ok", ptr |-> ptr,
                          nitems |-> new_nitems, old_nitems |-> old_nitems,
                          len_before |-> h.len, old_items |-> old_items]]
    IN IF new_nitems <= old_nitems THEN done(old_ptr, h.len, h.mem)
       ELSE IF h.overflow_checks /\ AddOverflows(h.len, new_nitems)
       THEN AllocPanic(h, "realloc", new_nitems, old_nitems)
       ELSE IF WrappingAdd(h.len, new_nitems) = WrappingAdd(old_ptr, additional_items)
       THEN IF WrappingAdd(h.len, additional_items) > h.cap
            THEN AllocPanic(h, "realloc", new_nitems, old_nitems)
            ELSE done(old_ptr, h.len, h.mem)
       ELSE IF WrappingAdd(h.len, new_nitems) > h.cap
            THEN AllocPanic(h, "realloc", new_nitems, old_nitems)
            ELSE done(h.len, WrappingAdd(h.len, new_nitems),
                      WriteItems(h.mem, h.len, old_items))

\* The sizes a caller asks for: a few items, or the largest usize.
RequestSizes == (0..MaxItems) \cup {UsizeRange - 1}

InitA ==
    /\ IdleV
    /\ IdleE
    /\ IdleB
    /\ IdleT
    /\ IdleI
    /\ \E overflow_checks \in BOOLEAN : heap = BumpPointerAllocNew(overflow_checks)

CallAlloc ==
    /\ heap.calls < MaxAllocCalls
    /\ \E nitems \in RequestSizes : heap' = Alloc(heap, nitems)
    /\ UNCHANGED <<varsV, varsE, varsB, varsT, varsI>>

CallRealloc ==
    /\ heap.calls < MaxAllocCalls
    /\ \E k \in 1..Len(heap.regions), new_nitems \in RequestSizes :
        heap' = Realloc(heap, k, new_nitems)
    /\ UNCHANGED <<varsV, varsE, varsB, varsT, varsI>>

NextA ==
    \/ CallAlloc
    \/ CallRealloc

SpecA == InitA /\ [][NextA]_vars

\* Two regions share an item.
Overlap(r1, r2) ==
    /\ r1.ptr < r2.ptr + r2.nitems
    /\ r2.ptr < r1.ptr + r1.nitems

\* C40: after any sequence of alloc and realloc calls the bump length never
\* exceeds the capacity, every returned region lies inside the zone and is
\* disjoint from every region returned by an earlier call that is still in
\* use, realloc to a larger size preserves the first old_nitems items, and a
\* request that does not fit panics without changing the length.
C40_BumpAllocSafe ==
    heap # <<>> =>
        /\ heap.len <= heap.cap
        /\ \A k \in 1..Len(heap.regions) :
              heap.regions[k].ptr + heap.regions[k].nitems <= heap.cap
        /\ \A j, k \in 1..Len(heap.regions) :
              j # k => ~Overlap(heap.regions[j], heap.regions[k])
        /\ (heap.last.op = "realloc" /\ heap.last.res = "Ok"
                /\ heap.last.nitems > heap.last.old_nitems) =>
              ItemsAt(heap.mem, heap.last.ptr, heap.last.old_nitems)
                  = heap.last.old_items
        /\ heap.last.res = "Panic" => heap.len = heap.last.len_before

====
